---- MODULE Spec2Model ----
(***************************************************************************)
(* dua-cli: the two consumers of the Walker abstraction.                   *)
(*   aggregate()              src/src/aggregate.rs  (flat per-root totals) *)
(*   Traversal::from_walker() src/src/traverse.rs   (sized tree)           *)
(* One behaviour is one invocation of one of the two entry points.  The    *)
(* walker is the environment: it answers device_id() for each root and     *)
(* yields the items of each root's stream one at a time; roots records   *)
(* what it has delivered so far.                                           *)
(***************************************************************************)
EXTENDS Integers, Sequences, FiniteSets, TLC

\* ---------------------------------------------------------------- bounds
MaxRoots == 2
\* stream items per invocation when the walker yields the full set of kinds
MaxItems == 2
\* stream items per invocation when the walker yields nested plain trees
MaxTreeItems == 4
MaxDepth == 2
\* timer ticks and can_update() calls of one Throttle
MaxTicks == 3
MaxCalls == 4

\* ------------------------------------------------------- program constants
\* Statistics.smallest_file_in_bytes starts at u128::max_value(); any value
\* above every sum the bounds allow behaves the same.
u128_max_value == 1000000
\* PathBuf::default(): the empty name of the synthetic root
EmptyName == 0
\* file names are numbers from here upwards, root paths are 1..MaxRoots
FileNameBase == 10
\* SystemTime::UNIX_EPOCH and the time a successful modified() reports
UNIX_EPOCH == 0
ModifiedTime == 1

VARIABLES
    consumer,               \* "aggregate" | "from_walker": the entry point called
    walk_options,           \* WalkOptions (count_hard_links, apparent_size, cross_filesystems)
    walker,                 \* what the walker can yield: [kinds, depths, items]
    roots,                  \* delivered so far: Seq of [path, device_id, entries]
    pc,                     \* "start" | "paths" | "entries" | "returned"
    result,                 \* "running" | "Some" | "None" | "Err" | "Ok" | "panic"
    panic_msg,              \* the message of the failed expect()/unwrap(), "" if none
    last_update,            \* the progress callback at the last item: "none", or on a return "true" | "error"
    device_id,              \* device id resolved for the current root
    inodes,                 \* InodeFilter: set of <<dev, ino>> seen
    \* ---- Traversal::from_walker
    tree,                   \* t.tree: [nodes: Seq of EntryData, edges: set of <<from, to>>]
    entries_traversed,      \* t.entries_traversed / stats.entries_traversed
    io_errors,              \* t.io_errors
    total_bytes,            \* t.total_bytes: <<>> is None, <<n>> is Some(n)
    previous_node_idx,
    parent_node_idx,
    sizes_per_depth_level,
    current_size_at_depth,
    previous_depth,
    \* ---- aggregate
    res,                    \* WalkResult [num_roots, num_errors, total]
    stats,                  \* Statistics [smallest_file_in_bytes, largest_file_in_bytes]
    aggregates,             \* Seq of <<path, num_bytes, num_errors>>
    num_bytes,              \* running total of the current root
    num_errors,             \* running error count of the current root
    sort_by_size_in_bytes,  \* the flag the call was given (read once, at the end)
    \* ---- Throttle (common.rs), at the grain of its atomic operations; the
    \* two consumers above see it only through whether a call is due
    trigger,                \* the shared AtomicBool
    timer_pc,               \* timer thread: "initial_sleep" | "ready" | "sleeping" | "gone"
    instance_alive,         \* the Throttle has not been dropped (Weak::upgrade succeeds)
    ticks,                  \* number of store(true) the timer thread has done
    caller_pc,              \* consumer thread: "idle" | "run_f" (inside throttled, after the swap)
    calls,                  \* number of can_update() swaps done
    f_runs,                 \* number of times f has been executed
    update_arg,             \* <<entries_traversed, nodes>> of the traversal the last
                            \* callback invocation was given, <<>> if none (kept
                            \* only when the walk runs against its timer)
    call_log,               \* the calls made so far to a function exercised on its
                            \* own, oldest first: [args, returned]
    jw_yielded,             \* JWalkWalkerIterator: the entries yielded so far
    jw_open,                \* ... and the directories being read, as indices into
                            \* jw_yielded, innermost last
    \* ---- Refresh::from_walk (refresh.rs): the locals it has beside those
    \* that carry the names of Traversal::from_walker
    directory_info_per_depth_level, \* Vec<EntryInfo>: the accumulators of the enclosing levels
    current_directory_at_depth      \* EntryInfo: the accumulator of the current level

common_vars == <<consumer, walk_options, walker, roots, pc, result, panic_msg,
                 last_update, device_id, inodes, entries_traversed>>
tree_vars == <<tree, io_errors, total_bytes, previous_node_idx, parent_node_idx,
               sizes_per_depth_level, current_size_at_depth, previous_depth>>
agg_vars == <<res, stats, aggregates, num_bytes, num_errors, sort_by_size_in_bytes>>
throttle_vars == <<trigger, timer_pc, instance_alive, ticks, caller_pc, calls, f_runs>>
jwalk_vars == <<jw_yielded, jw_open>>
refresh_vars == <<directory_info_per_depth_level, current_directory_at_depth>>
vars == <<common_vars, tree_vars, agg_vars, throttle_vars, update_arg, call_log,
          jwalk_vars, refresh_vars>>

\* ------------------------------------------------------------ the walker
\* MockMetadata / MockEntry (fs_walk/mocks.rs): one record shape for every item.
\* md is the shape of Entry::metadata(): "None", "Err" or "Ok".
MockEntry(depth, kind) ==
    LET base == [ok |-> TRUE, depth |-> depth, md |-> "Ok", is_dir |-> FALSE,
                 dev |-> 0, ino |-> 2, nlink |-> 1, apparent_size |-> 1,
                 disk_ok |-> TRUE, size_on_disk |-> 2, mod_ok |-> TRUE,
                 file_name |-> FileNameBase]
    IN CASE kind = "dir" ->
              [base EXCEPT !.is_dir = TRUE, !.ino = 1, !.nlink = 2,
                           !.apparent_size = 9, !.size_on_disk = 9,
                           !.file_name = FileNameBase + 1]
         [] kind = "file" -> base
         [] kind = "link" ->
              [base EXCEPT !.ino = 3, !.nlink = 2, !.apparent_size = 3,
                           !.size_on_disk = 4, !.file_name = FileNameBase + 2]
         [] kind = "link_size_err" ->
              [base EXCEPT !.ino = 3, !.nlink = 2, !.apparent_size = 3,
                           !.disk_ok = FALSE, !.size_on_disk = 4,
                           !.file_name = FileNameBase + 3]
         [] kind = "mtime_err" ->
              [base EXCEPT !.ino = 4, !.mod_ok = FALSE,
                           !.file_name = FileNameBase + 4]
         [] kind = "size_mtime_err" ->
              [base EXCEPT !.ino = 5, !.disk_ok = FALSE, !.mod_ok = FALSE,
                           !.file_name = FileNameBase + 7]
         [] kind = "meta_err" ->
              [base EXCEPT !.md = "Err", !.file_name = FileNameBase + 5]
         [] kind = "no_meta" ->
              [base EXCEPT !.md = "None", !.file_name = FileNameBase + 6]

\* an enumeration error: Err(io::Error) in place of an entry
ErrItem ==
    [ok |-> FALSE, depth |-> 0, md |-> "None", is_dir |-> FALSE,
     dev |-> 0, ino |-> 0, nlink |-> 0, apparent_size |-> 0,
     disk_ok |-> TRUE, size_on_disk |-> 0, mod_ok |-> TRUE,
     file_name |-> EmptyName]

\* every item the walker of this behaviour may yield next
Items == {MockEntry(d, k) : d \in walker.depths, k \in walker.kinds} \cup {ErrItem}

\* Walker::device_id(path): <<id>> is Ok(id), <<>> is Err
DeviceIds == {<<>>} \cup {<<d>> : d \in walker.devices}

RECURSIVE DeliveredUpTo(_, _)
DeliveredUpTo(rs, k) ==
    IF k = 0 THEN 0 ELSE Len(rs[k].entries) + DeliveredUpTo(rs, k - 1)

\* number of stream items pulled so far, over all roots
Delivered == DeliveredUpTo(roots, Len(roots))

MoreItems == Delivered < walker.items
MoreRoots == Len(roots) < MaxRoots

\* the root whose stream is open
Cur == Len(roots)
path == roots[Cur].path

\* an item that comes out of the first root's stream whichever root is open
Deliver_FromFirstRoot(item) == [roots EXCEPT ![1].entries = Append(@, item)]

\* the open stream yields item
Deliver(item) == [roots EXCEPT ![Cur].entries = Append(@, item)]

WalkOptionSets ==
    [count_hard_links : BOOLEAN, apparent_size : BOOLEAN, cross_filesystems : BOOLEAN]
\* WalkOptions::default()
DefaultWalkOptions ==
    [count_hard_links |-> FALSE, apparent_size |-> FALSE, cross_filesystems |-> FALSE]

AllKinds == {"dir", "file", "link", "link_size_err", "meta_err"}
TreeKinds == {"dir", "file"}
FailingKinds == {"dir", "link_size_err", "meta_err", "mtime_err"}
RecordingKinds ==
    {"file", "link", "link_size_err", "mtime_err", "size_mtime_err", "meta_err",
     "no_meta"}
AggregateKinds == {"dir", "file", "link", "link_size_err", "meta_err", "no_meta"}

\* ----------------------------------------------- crossdev and InodeFilter
\* crossdev::is_same_device_raw(root device id, entry device id)
is_same_device_raw(root_dev, dev) == root_dev = dev

\* a filter without the short-circuit for nlink <= 1
add_raw_NoShortCircuit(seen, dev, ino, nlink) == <<dev, ino>> \notin seen

\* InodeFilter::add_raw(dev, ino, nlink): true the first time (dev, ino) is
\* seen; entries with nlink <= 1 are always true and are not remembered.
add_raw(seen, dev, ino, nlink) == nlink <= 1 \/ <<dev, ino>> \notin seen

\* a filter that remembers nothing
inodes_after_add_Forgetful(seen, dev, ino, nlink) == seen

\* what the filter remembers after add_raw(dev, ino, nlink)
inodes_after_add(seen, dev, ino, nlink) ==
    IF nlink <= 1 THEN seen ELSE seen \cup {<<dev, ino>>}

\* ------------------------------------------- the gates both consumers use
\* a hard-link gate that lets every observation through
HardLinkGate_Off(opts, seen, m) == TRUE

\* walk_options.count_hard_links || inodes.add_raw(m.dev(), m.ino(), m.nlink())
HardLinkGate(opts, seen, m) ==
    opts.count_hard_links \/ add_raw(seen, m.dev, m.ino, m.nlink)

\* a cross-device gate that lets every device through
CrossDeviceGate_Off(opts, root_dev, m) == TRUE

\* walk_options.cross_filesystems || crossdev::is_same_device_raw(device_id, m.dev())
CrossDeviceGate(opts, root_dev, m) ==
    opts.cross_filesystems \/ is_same_device_raw(root_dev, m.dev)

\* the whole guard: the entry's size is looked at
Counted(opts, seen, root_dev, m) ==
    /\ m.md = "Ok"
    /\ ~m.is_dir
    /\ HardLinkGate(opts, seen, m)
    /\ CrossDeviceGate(opts, root_dev, m)

\* add_raw() runs (and remembers the inode) only when the || before it did
\* not short-circuit, whatever the cross-device test says afterwards
InodesAfter(opts, seen, m) ==
    IF m.md = "Ok" /\ ~m.is_dir /\ ~opts.count_hard_links
    THEN inodes_after_add(seen, m.dev, m.ino, m.nlink)
    ELSE seen

\* the size fetch of a counted entry failed (size_on_disk() returned Err)
SizeFetchFailed(opts, seen, root_dev, m) ==
    Counted(opts, seen, root_dev, m) /\ ~opts.apparent_size /\ ~m.disk_ok

\* file_size that takes the size on disk even when its fetch failed
FileSize_IgnoringFetchError(opts, seen, root_dev, m) ==
    IF Counted(opts, seen, root_dev, m)
    THEN IF opts.apparent_size THEN m.apparent_size ELSE m.size_on_disk
    ELSE 0

\* file_size with the two kinds of size swapped
FileSize_Swapped(opts, seen, root_dev, m) ==
    IF Counted(opts, seen, root_dev, m)
    THEN IF ~opts.apparent_size THEN m.apparent_size
         ELSE IF m.disk_ok THEN m.size_on_disk ELSE 0
    ELSE 0

\* file_size of an entry
FileSize(opts, seen, root_dev, m) ==
    IF Counted(opts, seen, root_dev, m)
    THEN IF opts.apparent_size THEN m.apparent_size
         ELSE IF m.disk_ok THEN m.size_on_disk ELSE 0
    ELSE 0

\* ------------------------------------------------------------ the graph
\* EntryData::default()
EntryDataDefault ==
    [name |-> EmptyName, size |-> 0, mtime |-> UNIX_EPOCH, metadata_io_error |-> FALSE]

\* Tree::new() followed by tree.add_node(EntryData::default()): node 1 is the root
root_index == 1
NewTree == [nodes |-> <<EntryDataDefault>>, edges |-> {}]

add_node(g, data) == [g EXCEPT !.nodes = Append(@, data)]
add_edge(g, from, to) == [g EXCEPT !.edges = @ \cup {<<from, to>>}]

\* tree.node_weight_mut(idx) is Some
HasNode(g, idx) == idx \in DOMAIN g.nodes
set_size(g, idx, size) == [g EXCEPT !.nodes[idx].size = size]

\* tree.neighbors_directed(idx, Direction::Incoming)
Incoming(g, idx) == {e[1] : e \in {x \in g.edges : x[2] = idx}}
\* tree.neighbors_directed(idx, Direction::Outgoing)
Outgoing(g, idx) == {e[2] : e \in {x \in g.edges : x[1] = idx}}

RECURSIVE SumSizes(_, _)
SumSizes(g, set) ==
    IF set = {} THEN 0
    ELSE LET i == CHOOSE x \in set : TRUE
         IN g.nodes[i].size + SumSizes(g, set \ {i})

\* a root size summed over every node below the root, not its children only
recompute_root_size_AllNodes(g) == SumSizes(g, DOMAIN g.nodes \ {root_index})

\* Traversal::recompute_root_size
recompute_root_size(g) == SumSizes(g, Outgoing(g, root_index))

\* the messages of the three expect() calls and of the unwrap() on the log file
MsgSetSize == "node for parent index we just retrieved"
MsgParent == "every node in the iteration has a parent"
MsgPop == "sizes per level to be in sync with graph"
MsgLog == "called Result::unwrap() on an Err value"

\* the locals the two unwinding loops work on
Locals(g, sizes, cur, parent) ==
    [tree |-> g, sizes |-> sizes, cur |-> cur, parent |-> parent, panic |-> ""]

\* a round that climbs without writing the size of the directory it leaves
UnwindStep_SizeNotSet(s) ==
    IF ~HasNode(s.tree, s.parent) THEN [s EXCEPT !.panic = MsgSetSize]
    ELSE IF s.sizes = <<>> THEN [s EXCEPT !.panic = MsgPop]
    ELSE IF Incoming(s.tree, s.parent) = {} THEN [s EXCEPT !.panic = MsgParent]
    ELSE [tree |-> s.tree,
          sizes |-> SubSeq(s.sizes, 1, Len(s.sizes) - 1),
          cur |-> s.cur + s.sizes[Len(s.sizes)],
          parent |-> CHOOSE x \in Incoming(s.tree, s.parent) : TRUE,
          panic |-> ""]

\* one round of for _ in n..p (traverse.rs 171-180):
\* set_size_or_panic, then pop_or_panic, then parent_or_panic
UnwindStep(s) ==
    IF ~HasNode(s.tree, s.parent) THEN [s EXCEPT !.panic = MsgSetSize]
    ELSE IF s.sizes = <<>> THEN [s EXCEPT !.panic = MsgPop]
    ELSE IF Incoming(s.tree, s.parent) = {} THEN [s EXCEPT !.panic = MsgParent]
    ELSE [tree |-> set_size(s.tree, s.parent, s.cur),
          sizes |-> SubSeq(s.sizes, 1, Len(s.sizes) - 1),
          cur |-> s.cur + s.sizes[Len(s.sizes)],
          parent |-> CHOOSE x \in Incoming(s.tree, s.parent) : TRUE,
          panic |-> ""]

RECURSIVE Unwind(_, _)
Unwind(k, s) ==
    IF k = 0 \/ s.panic # "" THEN s ELSE Unwind(k - 1, UnwindStep(s))

\* a final unwind that sets the size before adding the popped accumulator
FinalUnwindStep_SetBeforePop(s) ==
    IF s.sizes = <<>> THEN [s EXCEPT !.panic = MsgPop]
    ELSE IF ~HasNode(s.tree, s.parent) THEN [s EXCEPT !.panic = MsgSetSize]
    ELSE IF Incoming(s.tree, s.parent) = {} THEN [s EXCEPT !.panic = MsgParent]
    ELSE [tree |-> set_size(s.tree, s.parent, s.cur),
          sizes |-> SubSeq(s.sizes, 1, Len(s.sizes) - 1),
          cur |-> s.cur + s.sizes[Len(s.sizes)],
          parent |-> CHOOSE x \in Incoming(s.tree, s.parent) : TRUE,
          panic |-> ""]

\* one round of for _ in 0..previous_depth (traverse.rs 220-224):
\* pop_or_panic, then set_size_or_panic, then parent_or_panic
FinalUnwindStep(s) ==
    IF s.sizes = <<>> THEN [s EXCEPT !.panic = MsgPop]
    ELSE IF ~HasNode(s.tree, s.parent) THEN [s EXCEPT !.panic = MsgSetSize]
    ELSE IF Incoming(s.tree, s.parent) = {} THEN [s EXCEPT !.panic = MsgParent]
    ELSE LET cur == s.cur + s.sizes[Len(s.sizes)]
         IN [tree |-> set_size(s.tree, s.parent, cur),
             sizes |-> SubSeq(s.sizes, 1, Len(s.sizes) - 1),
             cur |-> cur,
             parent |-> CHOOSE x \in Incoming(s.tree, s.parent) : TRUE,
             panic |-> ""]

RECURSIVE FinalUnwind(_, _)
FinalUnwind(k, s) ==
    IF k = 0 \/ s.panic # "" THEN s ELSE FinalUnwind(k - 1, FinalUnwindStep(s))

\* a deeper entry that is attached to the parent of the entry before it
DepthStep_KeepsParent(n, p, file_size, s, prev_node) ==
    IF n > p
    THEN [s EXCEPT !.sizes = Append(s.sizes, s.cur), !.cur = file_size]
    ELSE IF n < p
    THEN LET u == Unwind(p - n, s)
         IN IF u.panic # "" THEN u
            ELSE IF ~HasNode(u.tree, u.parent) THEN [u EXCEPT !.panic = MsgSetSize]
            ELSE [u EXCEPT !.cur = u.cur + file_size,
                           !.tree = set_size(u.tree, u.parent, u.cur + file_size)]
    ELSE [s EXCEPT !.cur = s.cur + file_size]

\* a shallower entry that climbs one level only, however far the depth fell
DepthStep_ClimbsOneLevel(n, p, file_size, s, prev_node) ==
    IF n > p
    THEN [s EXCEPT !.sizes = Append(s.sizes, s.cur), !.cur = file_size,
                   !.parent = prev_node]
    ELSE IF n < p
    THEN LET u == Unwind(1, s)
         IN IF u.panic # "" THEN u
            ELSE IF ~HasNode(u.tree, u.parent) THEN [u EXCEPT !.panic = MsgSetSize]
            ELSE [u EXCEPT !.cur = u.cur + file_size,
                           !.tree = set_size(u.tree, u.parent, u.cur + file_size)]
    ELSE [s EXCEPT !.cur = s.cur + file_size]

\* match (entry.depth(), previous_depth) (traverse.rs 164-191)
DepthStep(n, p, file_size, s, prev_node) ==
    IF n > p
    THEN [s EXCEPT !.sizes = Append(s.sizes, s.cur), !.cur = file_size,
                   !.parent = prev_node]
    ELSE IF n < p
    THEN LET u == Unwind(p - n, s)
         IN IF u.panic # "" THEN u
            ELSE IF ~HasNode(u.tree, u.parent) THEN [u EXCEPT !.panic = MsgSetSize]
            ELSE [u EXCEPT !.cur = u.cur + file_size,
                           !.tree = set_size(u.tree, u.parent, u.cur + file_size)]
    ELSE [s EXCEPT !.cur = s.cur + file_size]

\* data.name (traverse.rs 119-123)
NameOf(entry, root_path) == IF entry.depth < 1 THEN root_path ELSE entry.file_name

\* at most one io error for an entry, however many fetches failed
EntryIoErrors_OncePerEntry(opts, seen, root_dev, m) ==
    IF m.md = "Err" THEN 1
    ELSE IF m.md = "None" THEN 0
    ELSE IF SizeFetchFailed(opts, seen, root_dev, m) \/ ~m.mod_ok THEN 1
    ELSE 0

\* the entry's metadata could not be used in full: counted as io errors
\* and recorded on the node (traverse.rs 127-162)
EntryIoErrors(opts, seen, root_dev, m) ==
    IF m.md = "Err" THEN 1
    ELSE IF m.md = "None" THEN 0
    ELSE (IF SizeFetchFailed(opts, seen, root_dev, m) THEN 1 ELSE 0)
         + (IF m.mod_ok THEN 0 ELSE 1)

EntryData(opts, seen, root_dev, m, root_path) ==
    [name |-> NameOf(m, root_path),
     size |-> FileSize(opts, seen, root_dev, m),
     mtime |-> IF m.md = "Ok" /\ m.mod_ok THEN ModifiedTime ELSE UNIX_EPOCH,
     metadata_io_error |-> EntryIoErrors(opts, seen, root_dev, m) > 0]

\* if previous_depth == 0 in the Err arm (traverse.rs 202): a placeholder
\* node for the root path is added
AddsPlaceholder(prev_depth) == prev_depth = 0

\* ------------------------------------------------- the refresh tree
\* Option<u64>: <<>> is None, <<n>> is Some(n)
None == <<>>
Some(n) == <<n>>

\* RefreshEntryData::default() (refresh.rs 29-41)
RefreshEntryDataDefault ==
    [name |-> EmptyName, size |-> 0, mtime |-> UNIX_EPOCH, entry_count |-> None,
     is_dir |-> FALSE, is_complete |-> FALSE, is_visited |-> FALSE]

\* RefreshTree::new() and the root node, the only node made with is_dir: true
\* before any entry is seen (refresh.rs 133-138)
NewRefreshTree ==
    [nodes |-> <<[RefreshEntryDataDefault EXCEPT !.is_dir = TRUE]>>, edges |-> {}]

\* EntryInfo::default() (refresh.rs 73-78)
EntryInfoDefault == [size |-> 0, entries_count |-> None]

\* EntryInfo::add_count (refresh.rs 80-87)
add_count(a, b) ==
    IF a = None /\ b = None THEN None
    ELSE IF a = None THEN b
    ELSE IF b = None THEN a
    ELSE Some(a[1] + b[1])

\* *entries_count.get_or_insert(0) += 1
count_one_more(c) == IF c = None THEN Some(1) ELSE Some(c[1] + 1)

\* the message of assert!(node.is_dir)
MsgIsDir == "assertion failed: node.is_dir"

\* set_entry_info_or_panic once the node is found and is a directory
\* (refresh.rs 90-105)
set_entry_info(g, idx, info) ==
    [g EXCEPT !.nodes[idx].size = info.size,
              !.nodes[idx].entry_count = info.entries_count,
              !.nodes[idx].is_complete = TRUE]

\* the panic of set_entry_info_or_panic, "" if it does not panic: the
\* expect() on the node, then assert!(node.is_dir)
set_entry_info_panic(g, idx) ==
    IF ~HasNode(g, idx) THEN MsgSetSize
    ELSE IF ~g.nodes[idx].is_dir THEN MsgIsDir
    ELSE ""

\* current_directory_at_depth.size += dir_info.size;
\* current_directory_at_depth.add_count(&dir_info);
fold_into(cur, dir_info) ==
    [size |-> cur.size + dir_info.size,
     entries_count |-> add_count(cur.entries_count, dir_info.entries_count)]

\* one round of for _ in n..p (refresh.rs 238-250): set_entry_info_or_panic,
\* then pop_or_panic, then parent_or_panic
RefreshUnwindStep(s) ==
    IF set_entry_info_panic(s.tree, s.parent) # ""
    THEN [s EXCEPT !.panic = set_entry_info_panic(s.tree, s.parent)]
    ELSE IF s.sizes = <<>> THEN [s EXCEPT !.panic = MsgPop]
    ELSE IF Incoming(s.tree, s.parent) = {} THEN [s EXCEPT !.panic = MsgParent]
    ELSE [tree |-> set_entry_info(s.tree, s.parent, s.cur),
          sizes |-> SubSeq(s.sizes, 1, Len(s.sizes) - 1),
          cur |-> fold_into(s.cur, s.sizes[Len(s.sizes)]),
          parent |-> CHOOSE x \in Incoming(s.tree, s.parent) : TRUE,
          panic |-> ""]

RECURSIVE RefreshUnwind(_, _)
RefreshUnwind(k, s) ==
    IF k = 0 \/ s.panic # "" THEN s ELSE RefreshUnwind(k - 1, RefreshUnwindStep(s))

\* one round of for _ in 0..previous_depth (refresh.rs 304-313): pop_or_panic,
\* then set_entry_info_or_panic, then parent_or_panic
RefreshFinalUnwindStep(s) ==
    IF s.sizes = <<>> THEN [s EXCEPT !.panic = MsgPop]
    ELSE IF set_entry_info_panic(s.tree, s.parent) # ""
    THEN [s EXCEPT !.panic = set_entry_info_panic(s.tree, s.parent)]
    ELSE IF Incoming(s.tree, s.parent) = {} THEN [s EXCEPT !.panic = MsgParent]
    ELSE LET cur == fold_into(s.cur, s.sizes[Len(s.sizes)])
         IN [tree |-> set_entry_info(s.tree, s.parent, cur),
             sizes |-> SubSeq(s.sizes, 1, Len(s.sizes) - 1),
             cur |-> cur,
             parent |-> CHOOSE x \in Incoming(s.tree, s.parent) : TRUE,
             panic |-> ""]

RECURSIVE RefreshFinalUnwind(_, _)
RefreshFinalUnwind(k, s) ==
    IF k = 0 \/ s.panic # "" THEN s
    ELSE RefreshFinalUnwind(k - 1, RefreshFinalUnwindStep(s))

\* match (entry.depth, previous_depth) (refresh.rs 228-267)
RefreshDepthStep(n, p, file_size, s, prev_node) ==
    IF n > p
    THEN [s EXCEPT !.sizes = Append(s.sizes, s.cur),
                   !.cur = [size |-> file_size, entries_count |-> Some(1)],
                   !.parent = prev_node]
    ELSE IF n < p
    THEN LET u == RefreshUnwind(p - n, s)
         IN IF u.panic # "" THEN u
            ELSE [u EXCEPT !.cur = [size |-> u.cur.size + file_size,
                                    entries_count |->
                                        count_one_more(u.cur.entries_count)]]
    ELSE [s EXCEPT !.cur = [size |-> s.cur.size + file_size,
                            entries_count |-> count_one_more(s.cur.entries_count)]]

\* a node that is born visited
RefreshEntryData_Visited(opts, seen, root_dev, m, root_path) ==
    [RefreshEntryDataDefault EXCEPT !.name = NameOf(m, root_path),
                                    !.is_visited = TRUE]

\* the node of an entry (refresh.rs 176-226 and 269-270): a file that passed
\* the gates is complete at once; every other entry with metadata is
\* flagged a directory with no entries yet; an entry whose metadata failed
\* is complete
RefreshEntryData(opts, seen, root_dev, m, root_path) ==
    [name |-> NameOf(m, root_path),
     size |-> FileSize(opts, seen, root_dev, m),
     mtime |-> IF m.md = "Ok" /\ m.mod_ok THEN ModifiedTime ELSE UNIX_EPOCH,
     entry_count |-> IF m.md = "Ok" /\ ~Counted(opts, seen, root_dev, m)
                     THEN Some(0) ELSE None,
     is_dir |-> m.md = "Ok" /\ ~Counted(opts, seen, root_dev, m),
     is_complete |-> Counted(opts, seen, root_dev, m) \/ m.md = "Err",
     is_visited |-> FALSE]

\* ------------------------------------------------------------------ Init
\* the state of either entry point before its first statement
\* Throttle::new(duration, initial_sleep) (common.rs 22-39): the flag starts
\* false; aggregate passes an initial sleep, from_walker passes None
ThrottleNew ==
    /\ trigger = FALSE
    /\ timer_pc = IF consumer = "aggregate" THEN "initial_sleep" ELSE "ready"
    /\ instance_alive = TRUE
    /\ ticks = 0
    /\ caller_pc = "idle"
    /\ calls = 0
    /\ f_runs = 0

InitLocals ==
    /\ roots = <<>>
    /\ result = "running"
    /\ panic_msg = ""
    /\ last_update = "none"
    /\ device_id = 0
    /\ inodes = {}
    /\ tree = IF consumer = "from_walk" THEN NewRefreshTree ELSE NewTree
    /\ entries_traversed = 0
    /\ io_errors = 0
    /\ total_bytes = <<>>
    /\ previous_node_idx = root_index
    /\ parent_node_idx = root_index
    /\ sizes_per_depth_level = <<>>
    /\ current_size_at_depth = 0
    /\ previous_depth = 0
    /\ res = [num_roots |-> 0, num_errors |-> 0, total |-> 0]
    /\ stats = [smallest_file_in_bytes |-> u128_max_value, largest_file_in_bytes |-> 0]
    /\ aggregates = <<>>
    /\ num_bytes = 0
    /\ num_errors = 0
    /\ sort_by_size_in_bytes = FALSE
    /\ ThrottleNew
    /\ update_arg = <<>>
    /\ call_log = <<>>
    /\ jw_yielded = <<>>
    /\ jw_open = <<>>
    /\ directory_info_per_depth_level = <<>>
    /\ current_directory_at_depth = EntryInfoDefault

\* either entry point, any options, a walker yielding every kind of entry
Init ==
    /\ consumer \in {"aggregate", "from_walker"}
    /\ walk_options \in WalkOptionSets
    /\ walker = [kinds |-> AllKinds,
                 depths |-> {0},
                 devices |-> {0, 1},
                 items |-> MaxItems, timer |-> FALSE]
    /\ pc = IF consumer = "aggregate" THEN "paths" ELSE "start"
    /\ InitLocals

\* from_walker with WalkOptions::default() over nested trees of plain files,
\* as in the tests of traverse.rs
InitTree ==
    /\ consumer = "from_walker"
    /\ walk_options = DefaultWalkOptions
    /\ walker = [kinds |-> TreeKinds,
                 depths |-> 0 .. MaxDepth,
                 devices |-> {0},
                 items |-> MaxTreeItems, timer |-> FALSE]
    /\ pc = "start"
    /\ InitLocals

\* either entry point with WalkOptions::default() over streams in which
\* every kind of failure occurs, nested one level
InitFailures ==
    /\ consumer \in {"aggregate", "from_walker"}
    /\ walk_options = DefaultWalkOptions
    /\ walker = [kinds |-> FailingKinds,
                 depths |-> IF consumer = "aggregate" THEN {0} ELSE {0, 1},
                 devices |-> {0},
                 items |-> MaxItems + 1, timer |-> FALSE]
    /\ pc = IF consumer = "aggregate" THEN "paths" ELSE "start"
    /\ InitLocals

\* aggregate with every set of options over flat streams of every kind of
\* entry, entries without metadata included
InitAggregate ==
    /\ consumer = "aggregate"
    /\ walk_options \in WalkOptionSets
    /\ walker = [kinds |-> AggregateKinds,
                 depths |-> {0},
                 devices |-> {0, 1},
                 items |-> MaxItems, timer |-> FALSE]
    /\ pc = "paths"
    /\ InitLocals

\* ------------------------------------------------ Traversal::from_walker
\* the function is left without a traversal: Ok(None), Err(_) or a panic.
\* Every local (the traversal, the stack, the filter, the throttle) is dropped;
\* delivered is what remains known of the walk: the items up to the one at
\* which an expect() failed, nothing otherwise.
Leave(r, msg, upd, delivered) ==
    /\ pc' = "returned"
    /\ result' = r
    /\ panic_msg' = msg
    /\ last_update' = upd
    /\ roots' = delivered
    /\ device_id' = 0
    /\ inodes' = {}
    /\ tree' = NewTree
    /\ entries_traversed' = 0
    /\ io_errors' = 0
    /\ total_bytes' = <<>>
    /\ previous_node_idx' = root_index
    /\ parent_node_idx' = root_index
    /\ sizes_per_depth_level' = <<>>
    /\ current_size_at_depth' = 0
    /\ previous_depth' = 0
    /\ instance_alive' = FALSE
    /\ UNCHANGED <<timer_pc, ticks, caller_pc, calls, f_runs,
                   consumer, walk_options, walker, agg_vars>>

\* an unwrap() or expect() fails: this happens before the throttle is asked
Panic(msg, delivered) ==
    /\ Leave("panic", msg, last_update, delivered)
    /\ UNCHANGED <<trigger, update_arg, call_log, jwalk_vars, refresh_vars>>

\* File::create("log.txt").unwrap() (traverse.rs 74)
FromWalkerStart ==
    /\ consumer = "from_walker"
    /\ pc = "start"
    /\ \E log_ok \in BOOLEAN :
          IF log_ok
          THEN /\ pc' = "paths"
               /\ UNCHANGED <<throttle_vars, update_arg, call_log, jwalk_vars, refresh_vars, consumer, walk_options, walker, roots, result,
                              panic_msg, last_update, device_id, inodes,
                              entries_traversed, tree_vars, agg_vars>>
          ELSE Panic(MsgLog, <<>>)

\* a device-id failure that is not counted
OnDeviceIdError_Uncounted(errs) == errs

\* Err(_) => { t.io_errors += 1; continue; } (traverse.rs 106-109)
OnDeviceIdError(errs) == errs + 1

\* for path in input: walker.device_id(path) (traverse.rs 103-110)
TreeNextPath ==
    /\ consumer = "from_walker"
    /\ pc = "paths"
    /\ MoreRoots
    /\ \E id \in DeviceIds :
          /\ roots' = Append(roots, [path |-> Len(roots) + 1, device_id |-> id,
                                      entries |-> <<>>])
          /\ IF id = <<>>
             THEN /\ io_errors' = OnDeviceIdError(io_errors)
                  /\ UNCHANGED <<pc, device_id>>
             ELSE /\ device_id' = id[1]
                  /\ pc' = "entries"
                  /\ UNCHANGED io_errors
    /\ UNCHANGED <<throttle_vars, update_arg, call_log, jwalk_vars, refresh_vars, consumer, walk_options, walker, result, panic_msg, last_update,
                   inodes, entries_traversed, tree, total_bytes, previous_node_idx,
                   parent_node_idx, sizes_per_depth_level, current_size_at_depth,
                   previous_depth, agg_vars>>

\* a store followed by a load: what is returned is the value just stored
swap_ReturnsNew(flag, value) == [returned |-> value, stored |-> value]

\* a swap that only loads
swap_LoadOnly(flag, value) == [returned |-> flag, stored |-> flag]

\* AtomicBool::swap(value, Relaxed): one atomic read-modify-write
\* (common.rs 52)
swap(flag, value) == [returned |-> flag, stored |-> value]

\* what throttle.can_update() can return at this item: the flag, when the
\* walk runs against its timer thread; otherwise either value, the timer
\* having ticked since the last call or not
DueNow == IF walker.timer THEN {swap(trigger, FALSE).returned} ELSE BOOLEAN

\* throttle.can_update() && update(&mut t)? (traverse.rs 212-214):
\* what the callback did at this item
UpdateOutcome(due, ret) == IF due THEN ret ELSE "not_called"
\* a callback whose error ends the walk like a stop
AfterUpdate_ErrorStops(outcome) ==
    IF outcome \in {"true", "error"} THEN "None" ELSE "continue"

\* a callback whose request to stop is not honoured
AfterUpdate_StopIgnored(outcome) ==
    IF outcome = "error" THEN "Err" ELSE "continue"

\* ... and whether the walk goes on: "continue", or the result it returns
AfterUpdate(outcome) ==
    IF outcome = "true" THEN "None"
    ELSE IF outcome = "error" THEN "Err"
    ELSE "continue"

\* a counter that passes over enumeration errors
CountItem_OkOnly(n, item) == IF item.ok THEN n + 1 ELSE n

\* stats.entries_traversed += 1; / t.entries_traversed += 1; the first
\* statement of the loop body, whatever the item is (aggregate.rs 41,
\* traverse.rs 112)
CountItem(n, item) == n + 1

\* the item the open stream yielded last
LastOf(delivered) ==
    delivered[Len(delivered)].entries[Len(delivered[Len(delivered)].entries)]

\* the end of one round of the inner loop
ItemDone(outcome, delivered, g, errs, seen, prev_node, s, depth) ==
    /\ trigger' = swap(trigger, FALSE).stored
    /\ call_log' = call_log
    /\ UNCHANGED <<jwalk_vars, refresh_vars, refresh_vars>>
    /\ update_arg' = IF walker.timer /\ outcome # "not_called"
                     THEN <<CountItem(entries_traversed, LastOf(delivered)),
                            Len(g.nodes)>>
                     ELSE update_arg
    /\ IF AfterUpdate(outcome) # "continue"
       THEN Leave(AfterUpdate(outcome), "", outcome, delivered)
       ELSE
         /\ roots' = delivered
         /\ last_update' = IF walker.timer THEN outcome ELSE last_update
         /\ tree' = g
         /\ io_errors' = errs
         /\ inodes' = seen
         /\ entries_traversed' = CountItem(entries_traversed, LastOf(delivered))
         /\ previous_node_idx' = prev_node
         /\ parent_node_idx' = s.parent
         /\ sizes_per_depth_level' = s.sizes
         /\ current_size_at_depth' = s.cur
         /\ previous_depth' = depth
         /\ UNCHANGED <<timer_pc, instance_alive, ticks, caller_pc, calls, f_runs,
                        consumer, walk_options, walker, pc, result, panic_msg,
                        device_id, total_bytes, agg_vars>>

\* the rest of one round of the inner loop, after the line was logged
ProcessEntry(item, outcome) ==
    LET s0 == Locals(tree, sizes_per_depth_level, current_size_at_depth,
                     parent_node_idx)
    IN IF item.ok
       THEN LET data == EntryData(walk_options, inodes, device_id, item, path)
                s == DepthStep(item.depth, previous_depth, data.size, s0,
                               previous_node_idx)
                entry_index == Len(s.tree.nodes) + 1
            IN IF s.panic # "" THEN Panic(s.panic, Deliver(item))
               ELSE ItemDone(outcome, Deliver(item),
                             add_edge(add_node(s.tree, data), s.parent, entry_index),
                             io_errors + EntryIoErrors(walk_options, inodes,
                                                       device_id, item),
                             InodesAfter(walk_options, inodes, item),
                             entry_index, s, item.depth)
       ELSE LET entry_index == Len(tree.nodes) + 1
                g == IF AddsPlaceholder(previous_depth)
                     THEN add_edge(add_node(tree, [EntryDataDefault EXCEPT
                                                    !.name = path]),
                                   parent_node_idx, entry_index)
                     ELSE tree
            IN ItemDone(outcome, Deliver(item), g, io_errors + 1, inodes,
                        previous_node_idx, s0, previous_depth)

\* one item of walker.into_iter(path, device_id) (traverse.rs 111-215):
\* log.write_all(..).unwrap(), the entry, then the throttled callback
TreeEntry ==
    /\ consumer = "from_walker"
    /\ pc = "entries"
    /\ MoreItems
    /\ \E item \in Items :
          \/ Panic(MsgLog, <<>>)
          \/ /\ FALSE \in DueNow
             /\ ProcessEntry(item, UpdateOutcome(FALSE, "false"))
          \/ /\ TRUE \in DueNow
             /\ \E ret \in {"false", "true", "error"} :
                   ProcessEntry(item, UpdateOutcome(TRUE, ret))

\* the stream of the current root is exhausted: on to the next path
TreeStreamEnd ==
    /\ consumer = "from_walker"
    /\ pc = "entries"
    /\ pc' = "paths"
    /\ UNCHANGED <<throttle_vars, update_arg, call_log, jwalk_vars, refresh_vars, consumer, walk_options, walker, roots, result, panic_msg,
                   last_update, device_id, inodes, entries_traversed, tree_vars,
                   agg_vars>>

\* after the last path: the final unwind and the root size (traverse.rs 218-230)
TreeFinish ==
    /\ consumer = "from_walker"
    /\ pc = "paths"
    /\ LET s == FinalUnwind(previous_depth,
                            Locals(tree, Append(sizes_per_depth_level,
                                                current_size_at_depth),
                                   0, parent_node_idx))
       IN IF s.panic # "" THEN Panic(s.panic, roots)
          ELSE IF ~HasNode(s.tree, root_index) THEN Panic(MsgSetSize, roots)
          ELSE LET root_size == recompute_root_size(s.tree)
               IN /\ tree' = set_size(s.tree, root_index, root_size)
                  /\ total_bytes' = <<root_size>>
                  /\ sizes_per_depth_level' = s.sizes
                  /\ current_size_at_depth' = s.cur
                  /\ parent_node_idx' = s.parent
                  /\ pc' = "returned"
                  /\ result' = "Some"
                  /\ instance_alive' = FALSE
                  /\ UNCHANGED <<trigger, timer_pc, ticks, caller_pc, calls, f_runs,
                                 update_arg, call_log, jwalk_vars, refresh_vars, consumer, walk_options, walker, roots, panic_msg,
                                 last_update, device_id, inodes, entries_traversed,
                                 io_errors, previous_node_idx, previous_depth,
                                 agg_vars>>

\* ------------------------------------------------------ Refresh::from_walk
\* walk_options.iter_from_path(path, device_id) (refresh.rs 171-173): the
\* entries of a stream come depth first, as from jwalk's WalkDir: the
\* first one at depth 0, each later one at most one level below the entry
\* before it, and only below a directory or an entry whose metadata could
\* not be read
RECURSIVE LastEntry(_)
LastEntry(es) ==
    IF es = <<>> THEN <<>>
    ELSE IF es[Len(es)].ok THEN <<es[Len(es)]>>
    ELSE LastEntry(SubSeq(es, 1, Len(es) - 1))

DepthFirst(es, item) ==
    \/ ~item.ok
    \/ /\ LastEntry(es) = <<>>
       /\ item.depth = 0
    \/ /\ LastEntry(es) # <<>>
       /\ item.depth <= LastEntry(es)[1].depth + 1
       /\ item.depth = LastEntry(es)[1].depth + 1
             => (LastEntry(es)[1].is_dir \/ LastEntry(es)[1].md = "Err")

\* Throttle::new(Duration::from_millis(250), None), WalkOptions::default(),
\* one device, streams of directories, files, hard links and entries
\* without readable metadata
RefreshKinds == {"dir", "file", "link", "meta_err"}

InitRefresh ==
    /\ consumer = "from_walk"
    /\ walk_options = DefaultWalkOptions
    /\ walker = [kinds |-> RefreshKinds,
                 depths |-> 0 .. MaxDepth,
                 devices |-> {0},
                 items |-> MaxTreeItems, timer |-> FALSE]
    /\ pc = "paths"
    /\ InitLocals

\* the function is left without a tree: Ok(None), Err(_) or a panic; every
\* local is dropped
RefreshLeave(r, msg, upd, delivered) ==
    /\ pc' = "returned"
    /\ result' = r
    /\ panic_msg' = msg
    /\ last_update' = upd
    /\ roots' = delivered
    /\ device_id' = 0
    /\ inodes' = {}
    /\ tree' = NewRefreshTree
    /\ entries_traversed' = 0
    /\ io_errors' = 0
    /\ total_bytes' = <<>>
    /\ previous_node_idx' = root_index
    /\ parent_node_idx' = root_index
    /\ directory_info_per_depth_level' = <<>>
    /\ current_directory_at_depth' = EntryInfoDefault
    /\ previous_depth' = 0
    /\ instance_alive' = FALSE
    /\ UNCHANGED <<timer_pc, ticks, caller_pc, calls, f_runs, update_arg, call_log,
                   jwalk_vars, consumer, walk_options, walker,
                   sizes_per_depth_level, current_size_at_depth, agg_vars>>

\* an expect() or the assert! fails: this happens before the throttle is asked
RefreshPanic(msg, delivered) ==
    /\ RefreshLeave("panic", msg, last_update, delivered)
    /\ UNCHANGED trigger

\* for path in input: crossdev::init(path) (refresh.rs 163-170)
RefreshNextPath ==
    /\ consumer = "from_walk"
    /\ pc = "paths"
    /\ MoreRoots
    /\ \E id \in DeviceIds :
          /\ roots' = Append(roots, [path |-> Len(roots) + 1, device_id |-> id,
                                      entries |-> <<>>])
          /\ IF id = <<>>
             THEN /\ io_errors' = io_errors + 1
                  /\ UNCHANGED <<pc, device_id>>
             ELSE /\ device_id' = id[1]
                  /\ pc' = "entries"
                  /\ UNCHANGED io_errors
    /\ UNCHANGED <<throttle_vars, update_arg, call_log, jwalk_vars, refresh_vars,
                   consumer, walk_options, walker, result, panic_msg, last_update,
                   inodes, entries_traversed, tree, total_bytes, previous_node_idx,
                   parent_node_idx, sizes_per_depth_level, current_size_at_depth,
                   previous_depth, agg_vars>>

\* the end of one round of the inner loop (refresh.rs 296-298)
RefreshItemDone(outcome, delivered, g, errs, seen, prev_node, s, depth) ==
    /\ trigger' = swap(trigger, FALSE).stored
    /\ IF AfterUpdate(outcome) # "continue"
       THEN RefreshLeave(AfterUpdate(outcome), "", outcome, delivered)
       ELSE
         /\ roots' = delivered
         /\ tree' = g
         /\ io_errors' = errs
         /\ inodes' = seen
         /\ entries_traversed' = entries_traversed + 1
         /\ previous_node_idx' = prev_node
         /\ parent_node_idx' = s.parent
         /\ directory_info_per_depth_level' = s.sizes
         /\ current_directory_at_depth' = s.cur
         /\ previous_depth' = depth
         /\ UNCHANGED <<timer_pc, instance_alive, ticks, caller_pc, calls, f_runs,
                        update_arg, call_log, jwalk_vars, consumer, walk_options,
                        walker, pc, result, panic_msg, last_update, device_id,
                        total_bytes, sizes_per_depth_level, current_size_at_depth,
                        agg_vars>>

\* one round of the inner loop (refresh.rs 175-294)
RefreshProcessEntry(item, outcome) ==
    LET s0 == Locals(tree, directory_info_per_depth_level,
                     current_directory_at_depth, parent_node_idx)
    IN IF item.ok
       THEN LET data == RefreshEntryData(walk_options, inodes, device_id, item, path)
                s == RefreshDepthStep(item.depth, previous_depth, data.size, s0,
                                      previous_node_idx)
                entry_index == Len(s.tree.nodes) + 1
            IN IF s.panic # "" THEN RefreshPanic(s.panic, Deliver(item))
               ELSE RefreshItemDone(outcome, Deliver(item),
                                    add_edge(add_node(s.tree, data), s.parent,
                                             entry_index),
                                    io_errors + EntryIoErrors(walk_options, inodes,
                                                              device_id, item),
                                    InodesAfter(walk_options, inodes, item),
                                    entry_index, s, item.depth)
       ELSE LET entry_index == Len(tree.nodes) + 1
                g == IF previous_depth = 0
                     THEN add_edge(add_node(tree, [RefreshEntryDataDefault EXCEPT
                                                    !.name = path]),
                                   parent_node_idx, entry_index)
                     ELSE tree
            IN RefreshItemDone(outcome, Deliver(item), g, io_errors + 1, inodes,
                               previous_node_idx, s0, previous_depth)

\* one item of walk_options.iter_from_path(path, device_id) and the
\* throttled callback after it (refresh.rs 171-299)
RefreshEntry ==
    /\ consumer = "from_walk"
    /\ pc = "entries"
    /\ MoreItems
    /\ \E item \in Items :
          /\ DepthFirst(roots[Cur].entries, item)
          /\ \/ RefreshProcessEntry(item, UpdateOutcome(FALSE, "false"))
             \/ \E ret \in {"false", "true", "error"} :
                   RefreshProcessEntry(item, UpdateOutcome(TRUE, ret))

\* the stream of the current root is exhausted: on to the next path
RefreshStreamEnd ==
    /\ consumer = "from_walk"
    /\ pc = "entries"
    /\ pc' = "paths"
    /\ UNCHANGED <<throttle_vars, update_arg, call_log, jwalk_vars, refresh_vars,
                   consumer, walk_options, walker, roots, result, panic_msg,
                   last_update, device_id, inodes, entries_traversed, tree_vars,
                   agg_vars>>

\* after the last path: the final unwind and the root's entry info
\* (refresh.rs 302-324)
RefreshFinish ==
    /\ consumer = "from_walk"
    /\ pc = "paths"
    /\ LET s == RefreshFinalUnwind(previous_depth,
                    Locals(tree, Append(directory_info_per_depth_level,
                                        current_directory_at_depth),
                           EntryInfoDefault, parent_node_idx))
       IN IF s.panic # "" THEN RefreshPanic(s.panic, roots)
          ELSE IF set_entry_info_panic(s.tree, root_index) # ""
          THEN RefreshPanic(set_entry_info_panic(s.tree, root_index), roots)
          ELSE LET root_size == recompute_root_size(s.tree)
               IN /\ tree' = set_entry_info(s.tree, root_index,
                                 [size |-> root_size,
                                  entries_count |->
                                      IF entries_traversed > 0
                                      THEN Some(entries_traversed) ELSE None])
                  /\ total_bytes' = <<root_size>>
                  /\ directory_info_per_depth_level' = s.sizes
                  /\ current_directory_at_depth' = s.cur
                  /\ parent_node_idx' = s.parent
                  /\ pc' = "returned"
                  /\ result' = "Some"
                  /\ instance_alive' = FALSE
                  /\ UNCHANGED <<trigger, timer_pc, ticks, caller_pc, calls, f_runs,
                                 update_arg, call_log, jwalk_vars, consumer,
                                 walk_options, walker, roots, panic_msg,
                                 last_update, device_id, inodes, entries_traversed,
                                 io_errors, previous_node_idx, previous_depth,
                                 sizes_per_depth_level, current_size_at_depth,
                                 agg_vars>>

NextRefresh == RefreshNextPath \/ RefreshEntry \/ RefreshStreamEnd \/ RefreshFinish

SpecRefresh == InitRefresh /\ [][NextRefresh]_vars

\* ------------------------------------------------------------- aggregate
\* a size-fetch failure counted whether or not the entry passed the gates
AggEntryErrors_Ungated(opts, seen, root_dev, m) ==
    IF m.md = "Err" THEN 1
    ELSE IF m.md = "Ok" /\ ~m.is_dir /\ ~opts.apparent_size /\ ~m.disk_ok THEN 1
    ELSE 0

\* errors one entry adds to num_errors (aggregate.rs 49-72)
AggEntryErrors(opts, seen, root_dev, m) ==
    IF m.md = "Err" THEN 1
    ELSE IF SizeFetchFailed(opts, seen, root_dev, m) THEN 1
    ELSE 0

Max(a, b) == IF a >= b THEN a ELSE b
Min(a, b) == IF a <= b THEN a ELSE b

\* an insertion that puts a record before the records with the same key
RECURSIVE InsertByKey_BeforeEqual(_, _)
InsertByKey_BeforeEqual(sorted, x) ==
    IF sorted = <<>> THEN <<x>>
    ELSE IF sorted[Len(sorted)][2] < x[2] THEN Append(sorted, x)
    ELSE Append(InsertByKey_BeforeEqual(SubSeq(sorted, 1, Len(sorted) - 1), x),
                sorted[Len(sorted)])

\* aggregates.sort_by_key(|&(_, num_bytes, _)| num_bytes): a stable sort
RECURSIVE InsertByKey(_, _)
InsertByKey(sorted, x) ==
    IF sorted = <<>> THEN <<x>>
    ELSE IF sorted[Len(sorted)][2] <= x[2] THEN Append(sorted, x)
    ELSE Append(InsertByKey(SubSeq(sorted, 1, Len(sorted) - 1), x),
                sorted[Len(sorted)])

RECURSIVE sort_by_key(_)
sort_by_key(seq) ==
    IF seq = <<>> THEN <<>>
    ELSE InsertByKey(sort_by_key(SubSeq(seq, 1, Len(seq) - 1)), seq[Len(seq)])

\* a device-id failure that does not reach the overall result
OnAggDeviceIdError_Uncounted(r) == [r EXCEPT !.num_roots = @ + 1]

\* a root whose device id failed is left out of num_roots
OnAggDeviceIdError_RootSkipped(r) == [r EXCEPT !.num_errors = @ + 1]

\* res.num_roots += 1, and on Err(_) of device_id: res.num_errors += 1
\* (aggregate.rs 28-35)
OnAggDeviceIdError(r) == [r EXCEPT !.num_roots = @ + 1, !.num_errors = @ + 1]

\* the record pushed for a root whose device id failed (aggregate.rs 29-36)
DeviceIdErrorRecord(root_path) == <<root_path, 0, 1>>

\* for path in paths: num_roots, device_id (aggregate.rs 27-39)
AggNextPath ==
    /\ consumer = "aggregate"
    /\ pc = "paths"
    /\ MoreRoots
    /\ \E id \in DeviceIds :
          /\ roots' = Append(roots, [path |-> Len(roots) + 1, device_id |-> id,
                                      entries |-> <<>>])
          /\ num_bytes' = 0
          /\ IF id = <<>>
             THEN /\ num_errors' = 1
                  /\ res' = OnAggDeviceIdError(res)
                  /\ aggregates' = Append(aggregates,
                                          DeviceIdErrorRecord(Len(roots) + 1))
                  /\ UNCHANGED <<pc, device_id>>
             ELSE /\ num_errors' = 0
                  /\ res' = [res EXCEPT !.num_roots = @ + 1]
                  /\ device_id' = id[1]
                  /\ pc' = "entries"
                  /\ UNCHANGED aggregates
    /\ UNCHANGED <<throttle_vars, update_arg, call_log, jwalk_vars, refresh_vars, consumer, walk_options, walker, result, panic_msg, last_update,
                   inodes, entries_traversed, tree_vars, stats, sort_by_size_in_bytes>>

\* one item of walker.into_iter(path, device_id) (aggregate.rs 40-79); the
\* throttled progress line written to err changes no state
AggEntry ==
    /\ consumer = "aggregate"
    /\ pc = "entries"
    /\ MoreItems
    /\ \E item \in Items :
          /\ roots' = Deliver(item)
          /\ entries_traversed' = CountItem(entries_traversed, item)
          /\ IF item.ok
             THEN LET file_size == FileSize(walk_options, inodes, device_id, item)
                  IN /\ stats' = [smallest_file_in_bytes |->
                                     Min(stats.smallest_file_in_bytes, file_size),
                                  largest_file_in_bytes |->
                                     Max(stats.largest_file_in_bytes, file_size)]
                     /\ num_bytes' = num_bytes + file_size
                     /\ num_errors' = num_errors
                            + AggEntryErrors(walk_options, inodes, device_id, item)
                     /\ inodes' = InodesAfter(walk_options, inodes, item)
             ELSE /\ num_errors' = num_errors + 1
                  /\ UNCHANGED <<stats, num_bytes, inodes>>
    /\ UNCHANGED <<throttle_vars, update_arg, call_log, jwalk_vars, refresh_vars, consumer, walk_options, walker, pc, result, panic_msg,
                   last_update, device_id, tree_vars, res, aggregates,
                   sort_by_size_in_bytes>>

\* the stream of the current root is exhausted (aggregate.rs 81-88)
AggStreamEnd ==
    /\ consumer = "aggregate"
    /\ pc = "entries"
    /\ aggregates' = Append(aggregates, <<path, num_bytes, num_errors>>)
    /\ res' = [res EXCEPT !.total = @ + num_bytes, !.num_errors = @ + num_errors]
    /\ pc' = "paths"
    /\ UNCHANGED <<throttle_vars, update_arg, call_log, jwalk_vars, refresh_vars, consumer, walk_options, walker, roots, result, panic_msg,
                   last_update, device_id, inodes, entries_traversed, tree_vars,
                   stats, num_bytes, num_errors, sort_by_size_in_bytes>>

\* statistics returned with the initial sentinel left in place
StatsAtReturn_Sentinel(st, traversed) == st

\* if stats.entries_traversed == 0 { stats.smallest_file_in_bytes = 0; }
\* (aggregate.rs 91-93)
StatsAtReturn(st, traversed) ==
    IF traversed = 0 THEN [st EXCEPT !.smallest_file_in_bytes = 0] ELSE st

\* after the last path (aggregate.rs 91-99)
AggFinish ==
    /\ consumer = "aggregate"
    /\ pc = "paths"
    /\ \E sort \in BOOLEAN :
          /\ sort_by_size_in_bytes' = sort
          /\ aggregates' = IF sort THEN sort_by_key(aggregates) ELSE aggregates
    /\ stats' = StatsAtReturn(stats, entries_traversed)
    /\ pc' = "returned"
    /\ result' = "Ok"
    /\ instance_alive' = FALSE
    /\ UNCHANGED <<trigger, timer_pc, ticks, caller_pc, calls, f_runs,
                   update_arg, call_log, jwalk_vars, refresh_vars, consumer, walk_options, walker, roots, panic_msg, last_update,
                   device_id, inodes, entries_traversed, tree_vars, res, num_bytes,
                   num_errors>>

\* an exit code that overlooks a single error
to_exit_code_AtLeastTwo(n) == IF n > 1 THEN 1 ELSE 0

\* WalkResult::to_exit_code: i32::from(self.num_errors > 0) (common.rs 64-66)
to_exit_code(n) == IF n > 0 THEN 1 ELSE 0

\* process::exit(res.to_exit_code()) with the WalkResult aggregate returned
\* (main.rs 176)
MainExit ==
    /\ consumer = "aggregate"
    /\ pc = "returned"
    /\ result = "Ok"
    /\ pc' = "exited"
    /\ call_log' = Append(call_log, [args |-> res.num_errors,
                                     returned |-> to_exit_code(res.num_errors)])
    /\ UNCHANGED <<jwalk_vars, refresh_vars, throttle_vars, update_arg, consumer, walk_options, walker,
                   roots, result, panic_msg, last_update, device_id, inodes,
                   entries_traversed, tree_vars, agg_vars>>

\* --------------------------------------------------------------- Throttle
\* if let Some(duration) = initial_sleep { sleep(duration) } (common.rs 29-31)
TimerInitialSleepEnds ==
    /\ timer_pc = "initial_sleep"
    /\ timer_pc' = "ready"
    /\ UNCHANGED <<trigger, instance_alive, ticks, caller_pc, calls, f_runs,
                   common_vars, tree_vars, agg_vars, update_arg, call_log, jwalk_vars, refresh_vars>>

\* a timer thread that holds a strong reference to the flag
upgrade_StrongReference(alive) == TRUE

\* trigger.upgrade() is Some(_): the Weak reference can be upgraded as long
\* as the Throttle, which owns the Arc, has not been dropped (common.rs 27, 32)
upgrade(alive) == alive

\* while let Some(t) = trigger.upgrade() { t.store(true, Relaxed); ..
\* (common.rs 32-33)
TimerTick ==
    /\ timer_pc = "ready"
    /\ upgrade(instance_alive)
    /\ ticks < MaxTicks
    /\ trigger' = TRUE
    /\ ticks' = ticks + 1
    /\ timer_pc' = "sleeping"
    /\ UNCHANGED <<instance_alive, caller_pc, calls, f_runs,
                   common_vars, tree_vars, agg_vars, update_arg, call_log, jwalk_vars, refresh_vars>>

\* .. std::thread::sleep(duration) } (common.rs 34)
TimerSleepEnds ==
    /\ timer_pc = "sleeping"
    /\ timer_pc' = "ready"
    /\ UNCHANGED <<trigger, instance_alive, ticks, caller_pc, calls, f_runs,
                   common_vars, tree_vars, agg_vars, update_arg, call_log, jwalk_vars, refresh_vars>>

\* trigger.upgrade() returns None once the Throttle is dropped: the timer
\* thread ends (common.rs 32, 36)
TimerExits ==
    /\ timer_pc = "ready"
    /\ ~upgrade(instance_alive)
    /\ timer_pc' = "gone"
    /\ UNCHANGED <<trigger, instance_alive, ticks, caller_pc, calls, f_runs,
                   common_vars, tree_vars, agg_vars, update_arg, call_log, jwalk_vars, refresh_vars>>

\* can_update(), alone or as the test of throttled(f) (common.rs 45, 51-53)
CanUpdate ==
    /\ caller_pc = "idle"
    /\ instance_alive
    /\ calls < MaxCalls
    /\ calls' = calls + 1
    /\ trigger' = swap(trigger, FALSE).stored
    /\ caller_pc' = IF swap(trigger, FALSE).returned THEN "run_f" ELSE "idle"
    /\ UNCHANGED <<timer_pc, instance_alive, ticks, f_runs,
                   common_vars, tree_vars, agg_vars, update_arg, call_log, jwalk_vars, refresh_vars>>

\* f() (common.rs 46), or what the caller does when can_update() was true
RunF ==
    /\ caller_pc = "run_f"
    /\ f_runs' = f_runs + 1
    /\ caller_pc' = "idle"
    /\ UNCHANGED <<trigger, timer_pc, instance_alive, ticks, calls,
                   common_vars, tree_vars, agg_vars, update_arg, call_log, jwalk_vars, refresh_vars>>

\* the consumer returns and the Throttle is dropped
ThrottleDropped ==
    /\ caller_pc = "idle"
    /\ instance_alive
    /\ instance_alive' = FALSE
    /\ UNCHANGED <<trigger, timer_pc, ticks, caller_pc, calls, f_runs,
                   common_vars, tree_vars, agg_vars, update_arg, call_log, jwalk_vars, refresh_vars>>

NextThrottle ==
    \/ TimerInitialSleepEnds
    \/ TimerTick
    \/ TimerSleepEnds
    \/ TimerExits
    \/ CanUpdate
    \/ RunF
    \/ ThrottleDropped

\* ------------------------------------------------------- specifications
NextTree ==
    \/ FromWalkerStart
    \/ TreeNextPath
    \/ TreeEntry
    \/ TreeStreamEnd
    \/ TreeFinish

NextAggregate ==
    \/ AggNextPath
    \/ AggEntry
    \/ AggStreamEnd
    \/ AggFinish

Next == NextTree \/ NextAggregate

\* either entry point over every kind of entry
Spec == Init /\ [][Next]_vars

\* from_walker over nested trees
SpecTree == InitTree /\ [][NextTree]_vars

\* either entry point over failing entries
SpecFailures == InitFailures /\ [][Next]_vars

\* from_walker with WalkOptions::default() over nested trees of plain files,
\* its progress callback driven by the flag its timer thread sets
InitCancel ==
    /\ consumer = "from_walker"
    /\ walk_options = DefaultWalkOptions
    /\ walker = [kinds |-> TreeKinds,
                 depths |-> {0, 1},
                 devices |-> {0},
                 items |-> MaxItems, timer |-> TRUE]
    /\ pc = "start"
    /\ InitLocals

NextCancel ==
    \/ NextTree
    \/ TimerTick
    \/ TimerSleepEnds
    \/ TimerExits

\* from_walker against the timer thread of its Throttle
SpecCancel == InitCancel /\ [][NextCancel]_vars

\* from_walker with every set of options over flat streams of entries whose
\* metadata, size on disk or modified time cannot be fetched
InitRecording ==
    /\ consumer = "from_walker"
    /\ walk_options \in WalkOptionSets
    /\ walker = [kinds |-> RecordingKinds,
                 depths |-> {0},
                 devices |-> {0, 1},
                 items |-> MaxItems, timer |-> FALSE]
    /\ pc = "start"
    /\ InitLocals

\* from_walker over entries whose fetches fail
SpecRecording == InitRecording /\ [][NextTree]_vars

\* aggregate over every kind of entry
SpecAggregate == InitAggregate /\ [][NextAggregate]_vars

\* aggregate with WalkOptions::default() over a finite list of roots with
\* finite streams of every kind of entry
InitTermination ==
    /\ consumer = "aggregate"
    /\ walk_options = DefaultWalkOptions
    /\ walker = [kinds |-> AggregateKinds,
                 depths |-> {0},
                 devices |-> {0, 1},
                 items |-> MaxItems, timer |-> FALSE]
    /\ pc = "paths"
    /\ InitLocals

\* aggregate runs on one thread that is never blocked for good: each of its
\* steps is taken once it can be (the input and every stream are finite, so
\* each iterator eventually returns its next item or None)
SpecTermination ==
    InitTermination /\ [][NextAggregate]_vars /\ WF_vars(NextAggregate)

\* ------------------------------------------------- JWalkWalkerIterator
\* what read_dir can hand to the process_read_dir callback: an Err, a file,
\* or a directory whose metadata() is Ok (on device 0 or 1) or Err and whose
\* path is or is not in options.ignore_dirs. read_children stands for
\* read_children_path.is_some(): jwalk sets it for directories only.
DirEntryResults ==
    {[ok |-> FALSE, is_dir |-> FALSE, md |-> "Err", dev |-> 0, ignored |-> FALSE,
      read_children |-> FALSE],
     [ok |-> TRUE, is_dir |-> FALSE, md |-> "Ok", dev |-> 0, ignored |-> FALSE,
      read_children |-> FALSE]}
    \cup [ok : {TRUE}, is_dir : {TRUE}, md : {"Ok"}, dev : {0, 1},
          ignored : BOOLEAN, read_children : {TRUE}]
    \cup [ok : {TRUE}, is_dir : {TRUE}, md : {"Err"}, dev : {0},
          ignored : BOOLEAN, read_children : {TRUE}]

\* a callback that does not descend when the metadata cannot be read
ok_for_fs_ErrPrunes(cross_filesystems, root_device_id, e) ==
    cross_filesystems \/ (e.md = "Ok" /\ is_same_device_raw(root_device_id, e.dev))

\* cross_filesystems || metadata.as_ref().map(|m| is_same_device(root_device_id, m))
\*                              .unwrap_or(true) (jwalk.rs 120-124)
ok_for_fs(cross_filesystems, root_device_id, e) ==
    cross_filesystems
    \/ (IF e.md = "Ok" THEN is_same_device_raw(root_device_id, e.dev) ELSE TRUE)

\* the closure given to process_read_dir, for one dir_entry_result
\* (jwalk.rs 115-131)
process_read_dir(opts, root_device_id, e) ==
    IF e.ok
    THEN IF e.is_dir
         THEN IF ~ok_for_fs(opts.cross_filesystems, root_device_id, e) \/ e.ignored
              THEN [e EXCEPT !.read_children = FALSE]
              ELSE e
         ELSE e
    ELSE e

\* the entry as it is yielded: its depth, and the directory it was read from
Yielded(e, depth, parent) ==
    [ok |-> e.ok, is_dir |-> e.is_dir, md |-> e.md, dev |-> e.dev,
     ignored |-> e.ignored, read_children |-> e.read_children,
     depth |-> depth, parent |-> parent]

\* the next item of the iterator (jwalk.rs 161-173): the root entry first,
\* then, depth first, the entries of every directory left with a
\* read_children_path
JWalkNext ==
    /\ pc = "jwalk"
    /\ Len(jw_yielded) < MaxTreeItems
    /\ Len(jw_open) <= MaxDepth
    /\ jw_yielded = <<>> \/ jw_open # <<>>
    /\ \E r \in DirEntryResults :
          LET e == process_read_dir(walk_options, device_id, r)
              parent == IF jw_open = <<>> THEN 0 ELSE jw_open[Len(jw_open)]
          IN /\ jw_yielded' = Append(jw_yielded, Yielded(e, Len(jw_open), parent))
             /\ jw_open' = IF e.read_children
                           THEN Append(jw_open, Len(jw_yielded) + 1)
                           ELSE jw_open
    /\ UNCHANGED <<throttle_vars, update_arg, call_log, common_vars, tree_vars,
                   agg_vars, refresh_vars>>

\* read_dir of the innermost open directory has no more entries
JWalkDirDone ==
    /\ pc = "jwalk"
    /\ jw_open # <<>>
    /\ jw_open' = SubSeq(jw_open, 1, Len(jw_open) - 1)
    /\ UNCHANGED <<jw_yielded, throttle_vars, update_arg, call_log, common_vars,
                   tree_vars, agg_vars, refresh_vars>>

NextJWalk == JWalkNext \/ JWalkDirDone

\* JWalkWalkerIterator::new(root, root_device_id, options) (jwalk.rs 103-155)
\* with either setting of cross_filesystems
InitJWalk ==
    /\ consumer = "from_walker"
    /\ walk_options \in {o \in WalkOptionSets :
                            ~o.count_hard_links /\ ~o.apparent_size}
    /\ walker = [kinds |-> {}, depths |-> {}, devices |-> {0}, items |-> 0,
                 timer |-> FALSE]
    /\ pc = "jwalk"
    /\ InitLocals

SpecJWalk == InitJWalk /\ [][NextJWalk]_vars

\* the aggregate subcommand up to the exit of the process
NextExit == NextAggregate \/ MainExit

SpecExit == InitAggregate /\ [][NextExit]_vars

\* the Throttle of either consumer: its timer thread against the calls of
\* the consumer thread
InitThrottle ==
    /\ consumer \in {"aggregate", "from_walker"}
    /\ walk_options = DefaultWalkOptions
    /\ walker = [kinds |-> {}, depths |-> {}, devices |-> {}, items |-> 0, timer |-> TRUE]
    /\ pc = IF consumer = "aggregate" THEN "paths" ELSE "start"
    /\ InitLocals

SpecThrottle == InitThrottle /\ [][NextThrottle]_vars

\* the same with a timer thread that is scheduled: a sleep ends, and the
\* thread takes the step after it
TimerThread == TimerInitialSleepEnds \/ TimerTick \/ TimerSleepEnds \/ TimerExits

SpecThrottleFair ==
    InitThrottle /\ [][NextThrottle]_vars /\ WF_vars(TimerThread)

\* ------------------------------------------------ InodeFilter on its own
\* the metadata an entry can hand to the filter: m.dev(), m.ino(), m.nlink()
FilterInputs == [dev : {0, 1}, ino : {1, 2}, nlink : {0, 1, 2}]

\* one call inodes.add_raw(dev, ino, nlink) on the filter of the invocation
InodeFilterAdd ==
    /\ pc = "filter"
    /\ Len(call_log) < MaxCalls
    /\ \E a \in FilterInputs :
          /\ call_log' = Append(call_log,
                                [args |-> a,
                                 returned |-> add_raw(inodes, a.dev, a.ino, a.nlink)])
          /\ inodes' = inodes_after_add(inodes, a.dev, a.ino, a.nlink)
    /\ UNCHANGED <<jwalk_vars, refresh_vars, throttle_vars, update_arg, consumer, walk_options, walker, pc,
                   roots, result, panic_msg, last_update, device_id,
                   entries_traversed, tree_vars, agg_vars>>

\* let mut inodes = InodeFilter::default(); then any sequence of calls
InitFilter ==
    /\ consumer \in {"aggregate", "from_walker"}
    /\ walk_options = DefaultWalkOptions
    /\ walker = [kinds |-> {}, depths |-> {}, devices |-> {}, items |-> 0, timer |-> FALSE]
    /\ pc = "filter"
    /\ InitLocals

SpecFilter == InitFilter /\ [][InodeFilterAdd]_vars

\* ------------------------------------- both consumers over the same streams
\* either entry point with WalkOptions::default() over nested streams of
\* directories, files and hard links
NestedKinds == {"dir", "file", "link"}

InitNested ==
    /\ consumer \in {"aggregate", "from_walker"}
    /\ walk_options = DefaultWalkOptions
    /\ walker = [kinds |-> NestedKinds,
                 depths |-> 0 .. MaxDepth,
                 devices |-> {0},
                 items |-> MaxItems + 1, timer |-> FALSE]
    /\ pc = IF consumer = "aggregate" THEN "paths" ELSE "start"
    /\ InitLocals

SpecNested == InitNested /\ [][Next]_vars

\* =================================================================
\* What the walker delivered, read back from roots
\* =================================================================
IsOk(item) == item.ok
OkEntries(r) == SelectSeq(r.entries, IsOk)

\* the pre-order depth contract of Walker::walk, root by root: the first
\* entry of a root is at depth 0 and no entry is more than one level below
\* the entry before it
DepthContract(rs) ==
    \A k \in DOMAIN rs :
        LET oks == OkEntries(rs[k])
        IN /\ oks # <<>> => oks[1].depth = 0
           /\ \A i \in 2 .. Len(oks) : oks[i].depth <= oks[i - 1].depth + 1

\* a sized non-directory entry: it has a size of its own
HasOwnSize(e) == e.ok /\ e.md = "Ok" /\ ~e.is_dir

\* only directories (and entries without usable metadata) have children
OnlyDirectoriesNest(rs) ==
    \A k \in DOMAIN rs :
        LET oks == OkEntries(rs[k])
        IN \A i \in 2 .. Len(oks) :
              oks[i].depth > oks[i - 1].depth => ~HasOwnSize(oks[i - 1])

\* all items delivered so far, in order, each with the root it came from
RECURSIVE Flat(_, _)
Flat(rs, k) ==
    IF k = 0 THEN <<>>
    ELSE Flat(rs, k - 1) \o
         [j \in 1 .. Len(rs[k].entries) |-> [root |-> k, e |-> rs[k].entries[j]]]

Delivery == Flat(roots, Len(roots))

RECURSIVE SumSeq(_)
SumSeq(seq) == IF seq = <<>> THEN 0 ELSE seq[1] + SumSeq(Tail(seq))

\* (dev, ino) was handed to the hard-link filter by one of the items in flat
ObservedIn(flat, dev, ino) ==
    \E q \in DOMAIN flat :
        /\ HasOwnSize(flat[q].e) /\ flat[q].e.nlink > 1
        /\ flat[q].e.dev = dev /\ flat[q].e.ino = ino

\* the size the options select for an entry, 0 when its fetch fails
SelectedSize(e) ==
    IF walk_options.apparent_size THEN e.apparent_size
    ELSE IF e.disk_ok THEN e.size_on_disk ELSE 0

\* the entry is a first observation as far as the hard-link filter goes
FirstObservation(before, e) ==
    e.nlink <= 1 \/ ~ObservedIn(before, e.dev, e.ino)

\* the entry is on the device resolved for its root rs[k]
OnRootDevice(rs, k, e) == rs[k].device_id = <<e.dev>>

\* what the claims say an item contributes, given the items before it
Contributes(rs, before, k, e) ==
    IF /\ HasOwnSize(e)
       /\ walk_options.count_hard_links \/ FirstObservation(before, e)
       /\ walk_options.cross_filesystems \/ OnRootDevice(rs, k, e)
    THEN SelectedSize(e)
    ELSE 0

\* ... summed over the items of root k among the first p items delivered
RECURSIVE ExpectedUpTo(_, _, _)
ExpectedUpTo(rs, k, p) ==
    IF p = 0 THEN 0
    ELSE LET flat == Flat(rs, Len(rs))
         IN ExpectedUpTo(rs, k, p - 1) +
            (IF flat[p].root = k
             THEN Contributes(rs, SubSeq(flat, 1, p - 1), k, flat[p].e)
             ELSE 0)

ExpectedBytes(rs, k) == ExpectedUpTo(rs, k, Len(Flat(rs, Len(rs))))

\* a step that pulls one item and goes on: the item, and what it added
PullsItem ==
    /\ result' = "running"
    /\ Len(roots') = Len(roots)
    /\ Len(roots) > 0
    /\ Len(roots'[Cur].entries) = Len(roots[Cur].entries) + 1

Pulled == roots'[Cur].entries[Len(roots'[Cur].entries)]

\* bytes the step added: to the root's running total (aggregate), or the
\* size of the node created for the entry (from_walker)
Added ==
    IF consumer = "aggregate" THEN num_bytes' - num_bytes
    ELSE IF Len(tree'.nodes) > Len(tree.nodes)
    THEN tree'.nodes[Len(tree'.nodes)].size
    ELSE 0

\* =================================================================
\* Tree shape
\* =================================================================
\* every node that has children is as large as its children together
SizesAddUp(g) ==
    \A n \in DOMAIN g.nodes :
        Outgoing(g, n) # {} => g.nodes[n].size = SumSizes(g, Outgoing(g, n))

RECURSIVE LeafSum(_, _)
RECURSIVE LeafSumOver(_, _)
LeafSumOver(g, set) ==
    IF set = {} THEN 0
    ELSE LET i == CHOOSE x \in set : TRUE
         IN LeafSum(g, i) + LeafSumOver(g, set \ {i})
\* the sizes of the leaves below n, or of n itself when it is a leaf
LeafSum(g, n) ==
    IF Outgoing(g, n) = {} THEN g.nodes[n].size
    ELSE LeafSumOver(g, Outgoing(g, n))

TreeTotalsHold ==
    /\ SizesAddUp(tree)
    /\ \A n \in DOMAIN tree.nodes : tree.nodes[n].size = LeafSum(tree, n)
    /\ tree.nodes[root_index].size = SumSizes(tree, Outgoing(tree, root_index))
    /\ total_bytes = <<tree.nodes[root_index].size>>

\* C1 as stated: whenever from_walker returns a tree for streams that honor
\* the pre-order depth contract, every node with children is as large as its
\* children together and total_bytes is the size of the synthetic root, the
\* sum of its children.
C1_SizesAddUp_AsStated ==
    (consumer = "from_walker" /\ result = "Some" /\ DepthContract(roots))
        => TreeTotalsHold

\* C1 amended: the same, for streams in which only directories (entries with
\* no size of their own) have children.
C1_SizesAddUp ==
    (/\ consumer = "from_walker" /\ result = "Some"
     /\ DepthContract(roots) /\ OnlyDirectoriesNest(roots))
        => TreeTotalsHold

\* a returned tree of two roots with errors in between, in which a directory
\* holds two files
C1_Witness ==
    /\ consumer = "from_walker" /\ result = "Some"
    /\ DepthContract(roots) /\ OnlyDirectoriesNest(roots)
    /\ Len(roots) = 2
    /\ \E n \in DOMAIN tree.nodes :
          /\ n # root_index
          /\ Cardinality(Outgoing(tree, n)) = 2
          /\ tree.nodes[n].size = 4
    /\ total_bytes = <<4>>

\* =================================================================
\* Gating of sizes
\* =================================================================
\* the record aggregate emitted for root k
RecordOf(k) == CHOOSE rec \in {aggregates[i] : i \in DOMAIN aggregates} : rec[1] = roots[k].path

RecordBytes == [i \in DOMAIN aggregates |-> aggregates[i][2]]

\* C2: when aggregate returns, there is one record per root, the byte total
\* of each root's record is the sum over that root's successfully read
\* non-directory entries that pass the hard-link and cross-device gates of
\* the selected size (apparent size or size on disk, 0 when the fetch
\* fails), and WalkResult.total is the sum of the records' byte totals.
C2_AggregateTotals ==
    (consumer = "aggregate" /\ result = "Ok") =>
        /\ Len(aggregates) = Len(roots)
        /\ \A k \in DOMAIN roots :
              /\ \E i \in DOMAIN aggregates : aggregates[i][1] = roots[k].path
              /\ RecordOf(k)[2] = ExpectedBytes(roots, k)
        /\ res.total = SumSeq(RecordBytes)

\* two roots on the same device that each hold a link to the same inode:
\* the first root's record has the bytes, the second has none, and the
\* records were sorted by size
C2_Witness ==
    /\ consumer = "aggregate" /\ result = "Ok"
    /\ ~walk_options.count_hard_links /\ ~walk_options.apparent_size
    /\ Len(roots) = 2
    /\ \A k \in {1, 2} :
          /\ roots[k].device_id = <<0>>
          /\ Len(roots[k].entries) = 1
          /\ HasOwnSize(roots[k].entries[1]) /\ roots[k].entries[1].nlink > 1
          /\ roots[k].entries[1].disk_ok
    /\ sort_by_size_in_bytes
    /\ aggregates = <<<<2, 0, 0>>, <<1, 4, 0>>>>
    /\ res.total = 4

\* C3: in both consumers a non-directory entry with nlink > 1 whose
\* (dev, ino) was observed before contributes 0 when count_hard_links is
\* false; a first observation, and with count_hard_links every observation,
\* contributes the entry's size (where the cross-device gate lets the entry
\* through): two such entries count once, or twice with count_hard_links.
C3_HardLinks ==
    [][(PullsItem /\ HasOwnSize(Pulled) /\ Pulled.nlink > 1) =>
         IF ~walk_options.count_hard_links
            /\ ObservedIn(Delivery, Pulled.dev, Pulled.ino)
         THEN Added = 0
         ELSE (walk_options.cross_filesystems \/ OnRootDevice(roots, Cur, Pulled))
                 => Added = SelectedSize(Pulled)]_vars

\* aggregate has pulled two links to one inode and counted them once
C3_Witness ==
    /\ consumer = "aggregate" /\ result = "running"
    /\ ~walk_options.count_hard_links /\ ~walk_options.apparent_size
    /\ Len(roots) = 1 /\ roots[1].device_id = <<0>>
    /\ Len(roots[1].entries) = 2
    /\ \A j \in {1, 2} : /\ HasOwnSize(roots[1].entries[j])
                          /\ roots[1].entries[j].nlink > 1
                          /\ roots[1].entries[j].disk_ok
    /\ roots[1].entries[1].ino = roots[1].entries[2].ino
    /\ num_bytes = 4

\* C4: in both consumers a non-directory entry on another device than the
\* one resolved for its root contributes 0 when cross_filesystems is false;
\* when it is true, and for an entry on the root's device whatever the flag,
\* the entry contributes what the selected size and the hard-link policy
\* give it.
C4_CrossDevice ==
    [][(PullsItem /\ HasOwnSize(Pulled)) =>
         IF ~walk_options.cross_filesystems /\ ~OnRootDevice(roots, Cur, Pulled)
         THEN Added = 0
         ELSE Added = IF \/ walk_options.count_hard_links
                         \/ FirstObservation(Delivery, Pulled)
                      THEN SelectedSize(Pulled)
                      ELSE 0]_vars

\* from_walker has made a node of size 0 for a file on another device
C4_Witness ==
    /\ consumer = "from_walker" /\ result = "running"
    /\ ~walk_options.cross_filesystems
    /\ Len(roots) = 1 /\ roots[1].device_id = <<1>>
    /\ Len(roots[1].entries) = 1
    /\ HasOwnSize(roots[1].entries[1]) /\ roots[1].entries[1].dev = 0
    /\ roots[1].entries[1].nlink = 1
    /\ Len(tree.nodes) = 2 /\ tree.nodes[2].size = 0

C6_ContractViolationAborts ==
    (consumer = "from_walker" /\ result = "Some") => DepthContract(roots)

\* the same for an invocation with a single root
C6_SingleRoot ==
    (consumer = "from_walker" /\ result = "Some" /\ Len(roots) = 1)
        => DepthContract(roots)

\* =================================================================
\* Failures
\* =================================================================
\* a step that resolves the device id of the next root, and fails
DeviceIdFails ==
    /\ Len(roots') = Len(roots) + 1
    /\ roots'[Len(roots')].device_id = <<>>

\* a step that pulls one item, however the round ends
PullsAnyItem ==
    /\ Len(roots') = Len(roots)
    /\ Len(roots) > 0
    /\ Len(roots'[Cur].entries) = Len(roots[Cur].entries) + 1

\* the size fetch of the entry fails when it is made
SizeFetchFails(e) == HasOwnSize(e) /\ ~walk_options.apparent_size /\ ~e.disk_ok

\* the mtime fetch of the entry fails; only from_walker asks for the mtime
MtimeFails(e) == consumer = "from_walker" /\ e.ok /\ e.md = "Ok" /\ ~e.mod_ok

\* enumeration error, metadata failure or size-fetch failure
FailsButMtime(e) == ~e.ok \/ e.md = "Err" \/ SizeFetchFails(e)

\* no failure is fatal and the walk goes on: an abort happens only on a
\* stream that breaks the depth contract (or when the debug log cannot be
\* written), and after a failed device id or a failing item the consumer is
\* still running unless the progress callback ended the walk
FailuresAreNotFatal ==
    /\ result' = "panic" => (panic_msg' = MsgLog \/ ~DepthContract(roots'))
    /\ DeviceIdFails => (result' = "running" /\ pc' = "paths")
    /\ (/\ PullsAnyItem /\ DepthContract(roots')
        /\ (FailsButMtime(Pulled) \/ MtimeFails(Pulled)))
          => (result' = "running" /\ pc' = "entries") \/ last_update' # "none"

\* C7 as stated: for streams that honor the ordering contract no failure is
\* fatal, every failing entry (enumeration error, metadata, size-fetch or
\* mtime failure) contributes 0 bytes, and processing continues.
C7_FailuresDegradeToZero_AsStated ==
    [][/\ FailuresAreNotFatal
       /\ (PullsItem /\ (FailsButMtime(Pulled) \/ MtimeFails(Pulled)))
             => Added = 0]_vars

\* C7 amended: the same, except that an entry whose only failure is the
\* mtime fetch of the tree builder keeps its size.
C7_FailuresDegradeToZero ==
    [][/\ FailuresAreNotFatal
       /\ (PullsItem /\ FailsButMtime(Pulled)) => Added = 0
       /\ (PullsItem /\ MtimeFails(Pulled) /\ ~FailsButMtime(Pulled))
             => Added = Contributes(roots, Delivery, Cur, Pulled)]_vars

\* from_walker, after a root whose device id failed, has pulled an entry
\* whose size fetch failed and then an enumeration error, and goes on with
\* two nodes and three errors
C7_Witness ==
    /\ consumer = "from_walker" /\ result = "running" /\ pc = "entries"
    /\ Len(roots) = 2 /\ roots[1].device_id = <<>>
    /\ Len(roots[2].entries) = 2
    /\ SizeFetchFails(roots[2].entries[1]) /\ ~roots[2].entries[2].ok
    /\ Len(tree.nodes) = 2 /\ tree.nodes[2].size = 0
    /\ io_errors = 3

\* roots whose device id failed have no entries
FailedRootsHaveNoEntries ==
    \A k \in DOMAIN roots' : roots'[k].device_id = <<>> => roots'[k].entries = <<>>

\* C8: aggregate, when the device id of a root cannot be resolved, counts
\* one error in the overall result, still counts the root, emits the record
\* (root, 0 bytes, 1 error), pulls no item of that root (entries_traversed
\* and the total are unchanged) and goes on with the next root.
C8_AggregateDeviceIdError ==
    [][consumer = "aggregate" =>
         /\ FailedRootsHaveNoEntries
         /\ DeviceIdFails =>
               /\ res'.num_errors = res.num_errors + 1
               /\ res'.num_roots = res.num_roots + 1
               /\ res'.total = res.total
               /\ aggregates' = Append(aggregates, <<roots'[Len(roots')].path, 0, 1>>)
               /\ entries_traversed' = entries_traversed
               /\ UNCHANGED <<stats, inodes>>
               /\ pc' = "paths" /\ result' = "running"]_vars

\* aggregate has returned for a root with one counted file followed by a
\* root whose device id failed
C8_Witness ==
    /\ consumer = "aggregate" /\ result = "Ok"
    /\ Len(roots) = 2
    /\ roots[1].device_id # <<>> /\ Len(roots[1].entries) = 1
    /\ roots[2].device_id = <<>> /\ roots[2].entries = <<>>
    /\ ~sort_by_size_in_bytes
    /\ aggregates[2] = <<2, 0, 1>>
    /\ res = [num_errors |-> 1, num_roots |-> 2, total |-> aggregates[1][2]]
    /\ res.total > 0
    /\ entries_traversed = 1

\* C9: from_walker, when the device id of a root cannot be resolved, adds 1
\* to io_errors and leaves entries_traversed, the tree, the depth stack,
\* the accumulator, the previous depth and the current parent as they were;
\* no item of that root is pulled and the walk goes on with the next root.
C9_TreeDeviceIdError ==
    [][consumer = "from_walker" =>
         /\ result' \in {"running", "Some"} => FailedRootsHaveNoEntries
         /\ DeviceIdFails =>
               /\ io_errors' = io_errors + 1
               /\ UNCHANGED <<entries_traversed, tree, total_bytes, inodes,
                              sizes_per_depth_level, current_size_at_depth,
                              previous_depth, parent_node_idx, previous_node_idx>>
               /\ pc' = "paths" /\ result' = "running"]_vars

\* from_walker has returned a tree for a directory with one file, followed
\* by a root whose device id failed: two nodes below the root, one error
C9_Witness ==
    /\ consumer = "from_walker" /\ result = "Some"
    /\ Len(roots) = 2
    /\ Len(roots[1].entries) = 2 /\ roots[1].entries[2].depth = 1
    /\ roots[2].device_id = <<>> /\ roots[2].entries = <<>>
    /\ Len(tree.nodes) = 3
    /\ io_errors = 1 /\ entries_traversed = 2
    /\ total_bytes = <<2>>

\* C10 as stated: an enumeration error that is the first item of a root
\* makes a placeholder node named by the root path, of size 0, below the
\* synthetic root, for every root of the invocation.
C10_PlaceholderForEveryRoot ==
    [][(/\ consumer = "from_walker" /\ PullsItem /\ DepthContract(roots)
        /\ roots[Cur].entries = <<>> /\ ~Pulled.ok)
          => /\ Len(tree'.nodes) = Len(tree.nodes) + 1
             /\ tree'.nodes[Len(tree'.nodes)]
                    = [EntryDataDefault EXCEPT !.name = roots[Cur].path]
             /\ tree'.edges = tree.edges \cup {<<root_index, Len(tree'.nodes)>>}]_vars

\* the same for the first root that produces anything
C10_FirstRoot ==
    [][(/\ consumer = "from_walker" /\ PullsItem /\ DepthContract(roots)
        /\ \A k \in DOMAIN roots : roots[k].entries = <<>>
        /\ ~Pulled.ok)
          => /\ Len(tree'.nodes) = Len(tree.nodes) + 1
             /\ tree'.nodes[Len(tree'.nodes)]
                    = [EntryDataDefault EXCEPT !.name = roots[Cur].path]
             /\ tree'.edges = tree.edges \cup {<<root_index, Len(tree'.nodes)>>}]_vars

\* the io_errors and entries_traversed part of C11: every enumeration error
\* that from_walker pulls adds one to each
EnumerationErrorIsCounted ==
    (consumer = "from_walker" /\ PullsItem /\ ~Pulled.ok)
        => /\ io_errors' = io_errors + 1
           /\ entries_traversed' = entries_traversed + 1

\* C11 as stated: an enumeration error that arrives after its root has
\* produced at least one entry creates no node and leaves the tree, the
\* accumulators, the previous depth and the current parent unchanged, and
\* every enumeration error adds 1 to io_errors and to entries_traversed.
C11_LateErrorMakesNoNode ==
    [][/\ EnumerationErrorIsCounted
       /\ (/\ consumer = "from_walker" /\ PullsItem /\ DepthContract(roots)
           /\ OkEntries(roots[Cur]) # <<>> /\ ~Pulled.ok)
             => UNCHANGED <<tree, sizes_per_depth_level, current_size_at_depth,
                            previous_depth, parent_node_idx>>]_vars

\* the same for an error that arrives when the last entry was below depth 0
C11_BelowDepthZero ==
    [][/\ EnumerationErrorIsCounted
       /\ (/\ consumer = "from_walker" /\ PullsItem /\ DepthContract(roots)
           /\ OkEntries(roots[Cur]) # <<>> /\ ~Pulled.ok
           /\ previous_depth > 0)
             => UNCHANGED <<tree, sizes_per_depth_level, current_size_at_depth,
                            previous_depth, parent_node_idx>>]_vars

\* =================================================================
\* What aggregate returns
\* =================================================================
\* the entry passes both gates, given the items before it
PassesGates(rs, before, k, e) ==
    /\ HasOwnSize(e)
    /\ walk_options.count_hard_links \/ FirstObservation(before, e)
    /\ walk_options.cross_filesystems \/ OnRootDevice(rs, k, e)

\* the errors the claims say an item of root k adds in aggregate
ErrorsOf(rs, before, k, e) ==
    IF ~e.ok THEN 1
    ELSE IF e.md = "Err" THEN 1
    ELSE IF /\ PassesGates(rs, before, k, e)
            /\ ~walk_options.apparent_size /\ ~e.disk_ok
    THEN 1
    ELSE 0

\* ... summed over the items of root k among the first p items delivered
RECURSIVE ExpectedErrorsUpTo(_, _, _)
ExpectedErrorsUpTo(rs, k, p) ==
    IF p = 0 THEN 0
    ELSE LET flat == Flat(rs, Len(rs))
         IN ExpectedErrorsUpTo(rs, k, p - 1) +
            (IF flat[p].root = k
             THEN ErrorsOf(rs, SubSeq(flat, 1, p - 1), k, flat[p].e)
             ELSE 0)

ExpectedErrors(rs, k) == ExpectedErrorsUpTo(rs, k, Len(Flat(rs, Len(rs))))

RecordErrors == [i \in DOMAIN aggregates |-> aggregates[i][3]]

\* C12: in aggregate the error count of a root whose device id resolved is
\* the number of its items that are enumeration errors, plus the entries
\* whose metadata fetch failed, plus the counted entries whose size-on-disk
\* fetch failed; these, directories and entries without metadata add no
\* bytes, and the latter two no error (the running byte and error counts
\* are the sums over the items pulled so far); WalkResult.num_errors is the
\* sum of the error counts of all records.
C12_AggregateErrors ==
    consumer = "aggregate" =>
        /\ (result = "running" /\ pc = "entries") =>
              /\ num_errors = ExpectedErrors(roots, Cur)
              /\ num_bytes = ExpectedBytes(roots, Cur)
        /\ result = "Ok" =>
              /\ \A k \in DOMAIN roots :
                    RecordOf(k)[3] = IF roots[k].device_id = <<>> THEN 1
                                     ELSE ExpectedErrors(roots, k)
              /\ res.num_errors = SumSeq(RecordErrors)

\* a root with two links to one inode whose size fetch fails: the first link
\* is counted and its fetch fails, the second is not counted and adds no error
C12_Witness ==
    /\ consumer = "aggregate" /\ result = "Ok"
    /\ ~walk_options.count_hard_links /\ ~walk_options.apparent_size
    /\ Len(roots) = 1 /\ roots[1].device_id = <<0>>
    /\ Len(roots[1].entries) = 2
    /\ \A j \in {1, 2} : /\ HasOwnSize(roots[1].entries[j])
                          /\ roots[1].entries[j].nlink > 1
                          /\ ~roots[1].entries[j].disk_ok
    /\ aggregates = <<<<1, 0, 1>>>>
    /\ res.num_errors = 1

\* the record of each root in input order, as the claims describe it
RecordsInInputOrder ==
    [k \in DOMAIN roots |->
        IF roots[k].device_id = <<>> THEN <<roots[k].path, 0, 1>>
        ELSE <<roots[k].path, ExpectedBytes(roots, k), ExpectedErrors(roots, k)>>]

\* seq is ascending by byte total, and records with equal byte totals are in
\* the order of their roots (root paths are numbered in input order)
StableAscending(seq) ==
    \A i, j \in DOMAIN seq :
        i < j => \/ seq[i][2] < seq[j][2]
                 \/ (seq[i][2] = seq[j][2] /\ seq[i][1] < seq[j][1])

\* C13: with sort_by_size_in_bytes aggregate returns the records of the
\* roots, none added or dropped, ascending by byte total, records with equal
\* totals in input order; without it the records are in input root order.
C13_SortByBytes ==
    (consumer = "aggregate" /\ result = "Ok") =>
        /\ Len(aggregates) = Len(roots)
        /\ \A k \in DOMAIN roots :
              \E i \in DOMAIN aggregates : aggregates[i] = RecordsInInputOrder[k]
        /\ sort_by_size_in_bytes => StableAscending(aggregates)
        /\ ~sort_by_size_in_bytes => aggregates = RecordsInInputOrder

\* sorted records of two roots, the first with a counted file, the second
\* with a failed device id: the second root's record comes first
C13_Witness ==
    /\ consumer = "aggregate" /\ result = "Ok" /\ sort_by_size_in_bytes
    /\ Len(roots) = 2
    /\ roots[1].device_id # <<>> /\ roots[2].device_id = <<>>
    /\ Len(aggregates) = 2
    /\ aggregates[1] = <<2, 0, 1>>
    /\ aggregates[2][1] = 1 /\ aggregates[2][2] > 0

\* the sizes the non-directory entries with metadata contributed, over all roots
NonDirectorySizes ==
    LET flat == Delivery
    IN {Contributes(roots, SubSeq(flat, 1, p - 1), flat[p].root, flat[p].e) :
           p \in {q \in DOMAIN flat : HasOwnSize(flat[q].e)}}

MinOf(set) == CHOOSE x \in set : \A y \in set : x <= y
MaxOf(set) == CHOOSE x \in set : \A y \in set : x >= y

\* some delivered entry is a directory, has no metadata or failed its
\* metadata fetch
SomeEntryWithoutOwnSize ==
    \E p \in DOMAIN Delivery : Delivery[p].e.ok /\ ~HasOwnSize(Delivery[p].e)

\* C14 as stated: the smallest and largest sizes aggregate returns are the
\* minimum and maximum over the non-directory entries only; directories and
\* entries without metadata influence neither.
C14_StatisticsOverFiles ==
    (consumer = "aggregate" /\ result = "Ok" /\ NonDirectorySizes # {}) =>
        /\ stats.smallest_file_in_bytes = MinOf(NonDirectorySizes)
        /\ stats.largest_file_in_bytes = MaxOf(NonDirectorySizes)

\* the same for streams in which every entry is a non-directory with metadata
C14_WithoutDirectories ==
    (/\ consumer = "aggregate" /\ result = "Ok" /\ NonDirectorySizes # {}
     /\ ~SomeEntryWithoutOwnSize) =>
        /\ stats.smallest_file_in_bytes = MinOf(NonDirectorySizes)
        /\ stats.largest_file_in_bytes = MaxOf(NonDirectorySizes)

\* C15: when aggregate pulled no item at all (every root had an empty
\* stream or a failed device id), it returns smallest_file_in_bytes 0
\* instead of the initial sentinel, largest_file_in_bytes 0 and total 0.
C15_NothingTraversed ==
    (consumer = "aggregate" /\ result = "Ok" /\ Delivery = <<>>) =>
        /\ entries_traversed = 0
        /\ stats.smallest_file_in_bytes = 0
        /\ stats.largest_file_in_bytes = 0
        /\ res.total = 0

\* aggregate has returned for a root with an empty stream and a root whose
\* device id failed
C15_Witness ==
    /\ consumer = "aggregate" /\ result = "Ok"
    /\ Len(roots) = 2
    /\ roots[1].device_id # <<>> /\ roots[1].entries = <<>>
    /\ roots[2].device_id = <<>>
    /\ stats = [smallest_file_in_bytes |-> 0, largest_file_in_bytes |-> 0]
    /\ res.total = 0 /\ res.num_roots = 2

\* =================================================================
\* Order of the walk
\* =================================================================
\* the step starts the next root: its device id is asked for, and the roots
\* before it are as they were
StartsNextRoot ==
    /\ Len(roots') = Len(roots) + 1
    /\ SubSeq(roots', 1, Len(roots)) = roots
    /\ roots'[Len(roots')].entries = <<>>

\* the step pulls one item from the stream of the last root started
PullsFromOpenStream ==
    /\ Len(roots') = Len(roots) /\ Len(roots) > 0
    /\ \A k \in 1 .. Len(roots) - 1 : roots'[k] = roots[k]
    /\ roots[Cur].device_id # <<>>
    /\ \E item \in Items :
          roots'[Cur] = [roots[Cur] EXCEPT !.entries = Append(@, item)]

\* C16: both consumers take the roots one after the other in input order:
\* a root is started (its device id resolved) only when no stream is open,
\* that is before the first root or after the stream of the root before it
\* has ended, and an item is only ever pulled from the stream of the last
\* root started, so items of different roots are never interleaved.
C16_RootsOneAfterTheOther ==
    [][result' \in {"running", "Some", "Ok"} =>
         /\ \A k \in DOMAIN roots' : roots'[k].path = k
         /\ \/ roots' = roots
            \/ pc = "paths" /\ StartsNextRoot
            \/ pc = "entries" /\ PullsFromOpenStream]_vars

\* from_walker is pulling from the second root after the first root yielded
\* an item
C16_Witness ==
    /\ consumer = "from_walker" /\ result = "running" /\ pc = "entries"
    /\ Len(roots) = 2
    /\ Len(roots[1].entries) = 1 /\ Len(roots[2].entries) = 1

\* =================================================================
\* Throttle
\* =================================================================
\* C17: with the timer thread setting the flag and one consumer thread
\* calling throttled(f) / can_update, f runs only after a call that found
\* the flag set, every call leaves the flag cleared unless the timer sets it
\* again, and in every interleaving the executions of f (the one a call has
\* committed to included) never exceed the ticks so far.
C17_ThrottleAtMostOncePerTick ==
    [][/\ f_runs' > f_runs => caller_pc = "run_f"
       /\ calls' > calls => /\ trigger' = FALSE
                           /\ (caller_pc' = "run_f") <=> trigger
       /\ f_runs' + (IF caller_pc' = "run_f" THEN 1 ELSE 0) <= ticks']_vars

\* three ticks, four calls, two executions of f: one tick was overwritten by
\* the next before a call consumed it
C17_Witness ==
    /\ ticks = 3 /\ calls = 4 /\ f_runs = 2
    /\ caller_pc = "idle" /\ ~trigger

\* =================================================================
\* Entries traversed
\* =================================================================
\* C19: in both consumers, while the call runs and when it returns its
\* result, entries_traversed is the number of items pulled from the streams
\* of all roots so far, files, directories and enumeration errors alike,
\* and a root whose device id failed has had no item pulled.
C19_EveryItemCounted ==
    result \in {"running", "Some", "Ok"} =>
        /\ entries_traversed = Len(Delivery)
        /\ \A k \in DOMAIN roots :
              roots[k].device_id = <<>> => roots[k].entries = <<>>

\* the call has returned after two roots: one whose device id failed, then
\* one whose stream yielded an enumeration error and a directory
C19_Witness ==
    /\ result \in {"Some", "Ok"}
    /\ Len(roots) = 2
    /\ roots[1].device_id = <<>>
    /\ Len(roots[2].entries) = 2
    /\ \E i, j \in 1 .. 2 : /\ ~roots[2].entries[i].ok
                             /\ roots[2].entries[j].ok
                             /\ roots[2].entries[j].is_dir
    /\ entries_traversed = 2

\* =================================================================
\* Hard-link filter
\* =================================================================
\* the step is one call of the filter
FilterCalled == call_log' # call_log

\* the call the step made
ThisCall == call_log'[Len(call_log')]

\* an earlier call handed the same (dev, ino) to the filter as a hard link
ObservedBefore(a) ==
    \E i \in DOMAIN call_log :
        /\ call_log[i].args.dev = a.dev /\ call_log[i].args.ino = a.ino
        /\ call_log[i].args.nlink > 1

\* C21: a call of the hard-link filter with nlink > 1 returns true exactly
\* when no earlier call of the invocation observed the same (dev, ino) as a
\* hard link, and false on every later one; a call with nlink <= 1 returns
\* true whatever was observed before; and nothing is ever removed from
\* what the filter remembers.
C21_FirstObservationOnly ==
    [][FilterCalled =>
         /\ call_log' = Append(call_log, ThisCall)
         /\ ThisCall.args.nlink > 1 =>
               (ThisCall.returned <=> ~ObservedBefore(ThisCall.args))
         /\ ThisCall.args.nlink <= 1 => ThisCall.returned
         /\ inodes \subseteq inodes']_vars

\* one pair handed over four times: first hard-link observation true, the
\* second false, as a single link true, as a hard link again still false
C21_Witness ==
    /\ pc = "filter" /\ Len(call_log) = 4
    /\ \A i \in 1 .. 4 : call_log[i].args.dev = 0 /\ call_log[i].args.ino = 1
    /\ call_log[1].args.nlink = 2 /\ call_log[1].returned
    /\ call_log[2].args.nlink = 2 /\ ~call_log[2].returned
    /\ call_log[3].args.nlink = 1 /\ call_log[3].returned
    /\ call_log[4].args.nlink = 2 /\ ~call_log[4].returned

\* =================================================================
\* Error recording on nodes
\* =================================================================
\* =================================================================
\* the node the step added
NewNode == tree'.nodes[Len(tree'.nodes)]

\* the size on disk of the entry was asked for and its fetch failed
CountedSizeFetchFails(e) ==
    /\ PassesGates(roots', Delivery, Cur, e)
    /\ ~walk_options.apparent_size
    /\ ~e.disk_ok

\* the failures of the entry that the claim names
FailuresOf(e) ==
    (IF e.md = "Err" THEN 1 ELSE 0)
    + (IF e.md = "Ok" /\ CountedSizeFetchFails(e) THEN 1 ELSE 0)
    + (IF e.md = "Ok" /\ ~e.mod_ok THEN 1 ELSE 0)

\* C20: in from_walker, the node added for a successfully enumerated entry
\* has metadata_io_error = TRUE exactly when its metadata fetch failed, the
\* size-on-disk fetch of the counted entry failed or its modified time
\* could not be read; io_errors grows by one for each of these failures;
\* and the node's size is 0 when the metadata or the size fetch failed.
C20_FailuresRecordedOnNode ==
    [][(consumer = "from_walker" /\ PullsItem /\ Pulled.ok) =>
         /\ Len(tree'.nodes) = Len(tree.nodes) + 1
         /\ NewNode.metadata_io_error <=> FailuresOf(Pulled) > 0
         /\ io_errors' = io_errors + FailuresOf(Pulled)
         /\ (Pulled.md = "Err" \/ CountedSizeFetchFails(Pulled))
               => NewNode.size = 0]_vars

\* after a clean file, an entry whose size on disk and modified time both
\* failed: two io errors, its node flagged and of size 0, the file's not
C20_Witness ==
    /\ consumer = "from_walker" /\ result = "running"
    /\ Len(roots) = 1 /\ Len(roots[1].entries) = 2
    /\ ~roots[1].entries[2].disk_ok /\ ~roots[1].entries[2].mod_ok
    /\ io_errors = 2
    /\ Len(tree.nodes) = 3
    /\ ~tree.nodes[2].metadata_io_error
    /\ tree.nodes[3].metadata_io_error /\ tree.nodes[3].size = 0

\* =================================================================
\* Cancellation
\* =================================================================
\* the step finished processing one stream item without an abort
ProcessesItem ==
    /\ result = "running" /\ pc = "entries"
    /\ result' # "panic"
    /\ entries_traversed' = entries_traversed + 1
       \/ result' \in {"None", "Err"}

\* the step invoked the progress callback
InvokesUpdate == ProcessesItem /\ last_update' \in {"false", "true", "error"}

\* C18: in from_walker the progress callback is invoked only in the step
\* that finished processing a stream item and only when the timer had set
\* the flag, which the step clears; the traversal it is given counts the
\* item just processed and holds the nodes added so far; once an
\* invocation has asked to stop, the call has returned None and nothing
\* happens any more: no item is pulled, no root is started and the callback
\* is not invoked again.
C18_CancellationProtocol ==
    [][/\ (last_update' # last_update \/ update_arg' # update_arg)
            => ProcessesItem
       /\ ProcessesItem =>
            /\ InvokesUpdate <=> trigger
            /\ trigger' = FALSE
            /\ InvokesUpdate =>
                 /\ update_arg'[1] = Len(Delivery')
                 /\ result' = "running" =>
                      update_arg' = <<entries_traversed', Len(tree'.nodes)>>
            /\ ~InvokesUpdate => update_arg' = update_arg
       /\ last_update = "true" =>
            /\ pc = "returned" /\ result = "None"
            /\ UNCHANGED <<roots, pc, result, last_update, update_arg>>]_vars

\* the callback was not due at the first item, stopped the walk at the
\* second, and the timer ticked again afterwards
C18_Witness ==
    /\ consumer = "from_walker" /\ walker.timer
    /\ result = "None" /\ last_update = "true"
    /\ update_arg[1] = 2 /\ Len(Delivery) = 2
    /\ ticks = 1 /\ ~trigger /\ timer_pc = "gone"

\* =================================================================
\* Exit code
\* =================================================================
\* some root's device id failed, or some item of some root is one of the
\* failures aggregate counts
SomeErrorCounted ==
    \E k \in DOMAIN roots :
        roots[k].device_id = <<>> \/ ExpectedErrors(roots, k) > 0

\* C22: the exit code handed to process::exit is 1 when the WalkResult
\* holds num_errors > 0 and 0 otherwise, and num_errors > 0 exactly when
\* the invocation counted an error: a device-id failure, an enumeration
\* error, a metadata failure or a size-fetch failure of a counted entry.
C22_ExitCode ==
    pc = "exited" =>
        /\ Len(call_log) = 1
        /\ call_log[1].args = res.num_errors
        /\ call_log[1].returned \in {0, 1}
        /\ call_log[1].returned = 1 <=> call_log[1].args > 0
        /\ call_log[1].returned # 0 <=> SomeErrorCounted

\* the process exited with 1 after a single error, an enumeration error in
\* the second of two roots
C22_Witness ==
    /\ pc = "exited" /\ call_log[1].returned = 1 /\ res.num_errors = 1
    /\ Len(roots) = 2 /\ roots[1].device_id # <<>>
    /\ Len(roots[2].entries) = 1 /\ ~roots[2].entries[1].ok

\* =================================================================
\* Termination of aggregate
\* =================================================================
\* aggregate has returned Ok with every input root counted and one record
\* for each of them
ReturnedOkWithEveryRoot ==
    /\ pc = "returned" /\ result = "Ok"
    /\ res.num_roots = Len(roots)
    /\ Len(aggregates) = Len(roots)
    /\ \A k \in DOMAIN roots :
          Cardinality({i \in DOMAIN aggregates : aggregates[i][1] = roots[k].path}) = 1

\* C23: aggregate has no way out but its end: it never stops with anything
\* but Ok, and for every finite list of roots with finite streams it
\* eventually returns Ok with num_roots equal to the number of input roots
\* and exactly one record per input root.
C23_AggregateRunsToCompletion ==
    /\ [](result \in {"running", "Ok"})
    /\ [](result = "Ok" => ReturnedOkWithEveryRoot)
    /\ <>(result = "Ok")

\* aggregate has returned for two roots, the first with a failed device id,
\* the second with an enumeration error and a file
C23_Witness ==
    /\ ReturnedOkWithEveryRoot
    /\ Len(roots) = 2 /\ roots[1].device_id = <<>>
    /\ Len(roots[2].entries) = 2
    /\ ~roots[2].entries[1].ok /\ roots[2].entries[2].ok

\* =================================================================
\* Walker adapter pruning
\* =================================================================
\* the yielded directory is on a device other than the root's, as far as
\* its metadata tells
OnOtherDevice(d) == d.md = "Ok" /\ d.dev # device_id

\* entries read from the directory at index i, or from a directory below it
RECURSIVE IsBelow(_, _)
IsBelow(j, i) ==
    /\ jw_yielded[j].parent # 0
    /\ jw_yielded[j].parent = i \/ IsBelow(jw_yielded[j].parent, i)

\* C24: every directory handed over by the walker adapter is yielded
\* itself; it is left undescended, so that nothing below it is yielded,
\* exactly when cross_filesystems is false and it is on another device than
\* the root, or its path is in ignore_dirs; every other directory is
\* descended into, a directory whose metadata could not be read included.
C24_Pruning ==
    \A i \in DOMAIN jw_yielded :
        LET d == jw_yielded[i]
        IN (d.ok /\ d.is_dir) =>
              /\ ~d.read_children <=>
                    \/ ~walk_options.cross_filesystems /\ OnOtherDevice(d)
                    \/ d.ignored
              /\ ~d.read_children =>
                    ~\E j \in DOMAIN jw_yielded : IsBelow(j, i)
              /\ (d.md = "Err" /\ ~d.ignored) => d.read_children

\* with cross_filesystems off, the root directory holds a directory on
\* another device, yielded and left alone, then a directory without
\* readable metadata with a file in it
C24_Witness ==
    /\ pc = "jwalk" /\ ~walk_options.cross_filesystems
    /\ Len(jw_yielded) = 4
    /\ jw_yielded[1].is_dir /\ jw_yielded[1].read_children
    /\ jw_yielded[2].is_dir /\ OnOtherDevice(jw_yielded[2])
    /\ ~jw_yielded[2].ignored /\ ~jw_yielded[2].read_children
    /\ jw_yielded[3].is_dir /\ jw_yielded[3].md = "Err"
    /\ jw_yielded[3].parent = 1 /\ jw_yielded[3].read_children
    /\ jw_yielded[4].parent = 3 /\ jw_yielded[4].depth = 2

\* =================================================================
\* The synthetic root
\* =================================================================
\* streams as the walker adapter produces them: the depth contract, only
\* directories nest, and the root's own entry is the only one at depth 0
AdapterStreams(rs) ==
    /\ DepthContract(rs)
    /\ OnlyDirectoriesNest(rs)
    /\ \A k \in DOMAIN rs :
          \A i \in 2 .. Len(OkEntries(rs[k])) : OkEntries(rs[k])[i].depth > 0

RootNode == tree.nodes[root_index]

\* the root's size is what the final recomputation gives it
RootSizeAtReturn ==
    result = "Some" =>
        /\ RootNode.size = SumSizes(tree, Outgoing(tree, root_index))
        /\ total_bytes = <<RootNode.size>>

\* C28 as stated: the synthetic root has an empty name; while from_walker
\* runs (and so at every progress callback) its size is 0, and it is
\* assigned only by the final recomputation, as the sum of the sizes of its
\* direct children.
C28_RootSizeOnlyAtTheEnd ==
    (consumer = "from_walker" /\ AdapterStreams(roots)) =>
        /\ result \in {"running", "Some"} => RootNode.name = EmptyName
        /\ result = "running" => RootNode.size = 0
        /\ RootSizeAtReturn

\* what holds of it: the name is empty throughout, the size is 0 as long as
\* no entry at depth 0 has followed a deeper one, and the returned size is
\* the sum of the direct children
C28_UntilBackAtDepthZero ==
    (consumer = "from_walker" /\ AdapterStreams(roots)) =>
        /\ result \in {"running", "Some"} => RootNode.name = EmptyName
        /\ (result = "running" /\ Len(roots) <= 1) => RootNode.size = 0
        /\ RootSizeAtReturn

\* =================================================================
\* Well-formedness of the tree
\* =================================================================
\* every node but the root has exactly one incoming edge, the root none,
\* and edges lead from older to newer nodes (so there is no cycle and every
\* node hangs below the root)
IsTree(g) ==
    /\ Incoming(g, root_index) = {}
    /\ \A n \in DOMAIN g.nodes :
          n # root_index => Cardinality(Incoming(g, n)) = 1
    /\ \A e \in g.edges : e[1] \in DOMAIN g.nodes /\ e[2] \in DOMAIN g.nodes
                          /\ e[1] < e[2]

\* the number of edges between the root and n
RECURSIVE TreeDepth(_, _)
TreeDepth(g, n) ==
    IF n = root_index THEN 0
    ELSE 1 + TreeDepth(g, CHOOSE p \in Incoming(g, n) : TRUE)

\* nodes and edges are only ever added
Grows(g, h) ==
    /\ Len(h.nodes) >= Len(g.nodes)
    /\ g.edges \subseteq h.edges
    /\ h.edges \ g.edges \subseteq
          {e \in h.edges : e[2] > Len(g.nodes)}

\* C29: for streams honouring the depth contract, after every item that
\* from_walker has processed the graph is a tree below the synthetic root:
\* a successfully enumerated entry adds exactly one node, whose tree depth
\* is the entry's stream depth + 1, an enumeration error adds at most its
\* placeholder, nothing else adds a node, and every node but the root has
\* exactly one parent edge.
C29_WellFormedTree ==
    [][(consumer = "from_walker" /\ result' \in {"running", "Some"}
        /\ DepthContract(roots')) =>
         /\ IsTree(tree')
         /\ Grows(tree, tree')
         /\ Len(tree'.nodes) - Len(tree.nodes) =
               IF ~PullsItem THEN 0
               ELSE IF Pulled.ok THEN 1
               ELSE IF Len(tree'.nodes) > Len(tree.nodes) THEN 1 ELSE 0
         /\ (PullsItem /\ Pulled.ok) =>
               TreeDepth(tree', Len(tree'.nodes)) = Pulled.depth + 1]_vars

\* a directory with a directory holding a file, then a file next to the
\* inner directory: five nodes, the last one two edges below the root
C29_Witness ==
    /\ consumer = "from_walker" /\ result = "running"
    /\ Len(roots) = 1 /\ Len(roots[1].entries) = 4
    /\ [i \in 1 .. 4 |-> roots[1].entries[i].depth] = <<0, 1, 2, 1>>
    /\ \A i \in 1 .. 4 : roots[1].entries[i].ok
    /\ tree.edges = {<<1, 2>>, <<2, 3>>, <<3, 4>>, <<2, 5>>}

\* =================================================================
\* One hard-link filter for all roots
\* =================================================================
\* an item of an earlier root was a hard link to (dev, ino) and was counted
CountedUnderEarlierRoot(dev, ino) ==
    \E q \in DOMAIN Delivery :
        /\ Delivery[q].root < Cur
        /\ Delivery[q].e.nlink > 1
        /\ Delivery[q].e.dev = dev /\ Delivery[q].e.ino = ino
        /\ PassesGates(roots, SubSeq(Delivery, 1, q - 1), Delivery[q].root,
                       Delivery[q].e)

\* C30: in both consumers, with count_hard_links false, a non-directory
\* entry with nlink > 1 whose (dev, ino) was counted under an earlier root
\* of the same call contributes 0 bytes, and starting a root leaves what the
\* filter remembers as it is.
C30_FilterSharedByRoots ==
    [][/\ StartsNextRoot => inodes' = inodes
       /\ (/\ PullsItem /\ HasOwnSize(Pulled) /\ Pulled.nlink > 1
           /\ ~walk_options.count_hard_links
           /\ CountedUnderEarlierRoot(Pulled.dev, Pulled.ino))
             => Added = 0]_vars

\* from_walker has made a node of 4 bytes for a hard link under the first
\* root and a node of 0 bytes for a link to the same inode under the second
C30_Witness ==
    /\ consumer = "from_walker" /\ result = "running"
    /\ ~walk_options.count_hard_links /\ ~walk_options.apparent_size
    /\ Len(roots) = 2
    /\ Len(roots[1].entries) = 1 /\ Len(roots[2].entries) = 1
    /\ \A k \in {1, 2} : /\ HasOwnSize(roots[k].entries[1])
                          /\ roots[k].entries[1].nlink > 1
                          /\ roots[k].entries[1].disk_ok
                          /\ roots[k].device_id = <<roots[k].entries[1].dev>>
    /\ roots[1].entries[1].ino = roots[2].entries[1].ino
    /\ tree.nodes[2].size = 4 /\ tree.nodes[3].size = 0

\* ======================================================================
\* The refresh builder: the flags and counts of its nodes
\* ======================================================================
RefreshWalk == consumer = "from_walk"
RefreshReturnedTree == RefreshWalk /\ result = "Some"

\* node a is a proper ancestor of node j
RECURSIVE AncestorOf(_, _, _)
AncestorOf(g, a, j) ==
    \E p \in Incoming(g, j) : p = a \/ AncestorOf(g, a, p)

\* the nodes of the subtree of i, i left out
Below(g, i) == {j \in DOMAIN g.nodes : AncestorOf(g, i, j)}

\* the walk is still inside the subtree of i: i is the synthetic root, the
\* directory the next entry is attached to or one above it, or the entry
\* yielded last, which the walk may still enter
WalkInside(i) ==
    \/ i = root_index
    \/ i = previous_node_idx
    \/ i = parent_node_idx
    \/ AncestorOf(tree, i, parent_node_idx)

\* a nullable count read as a number
CountOf(c) == IF c = None THEN 0 ELSE c[1]

\* C27: in every state of a walk of the refresh builder, and in the tree it
\* returns, every node has is_visited = false.
C27_NeverVisited ==
    RefreshWalk => \A i \in DOMAIN tree.nodes : ~tree.nodes[i].is_visited

\* a tree is returned that holds a nested directory, a file and a
\* placeholder of an enumeration error, none of them visited
C27_Witness ==
    /\ RefreshReturnedTree
    /\ Len(tree.nodes) >= 4
    /\ \E i \in DOMAIN tree.nodes : i # root_index /\ Outgoing(tree, i) # {}
    /\ \E i \in DOMAIN tree.nodes : tree.nodes[i].is_complete /\ ~tree.nodes[i].is_dir
    /\ \A i \in DOMAIN tree.nodes : ~tree.nodes[i].is_visited

\* C25: a directory node of the refresh tree is complete exactly when the
\* walk has left its subtree: incomplete while the walk is inside, complete
\* once it is outside, and every directory node, one without children
\* included, is complete in the tree that is returned.
C25_CompleteExactlyWhenFolded ==
    RefreshWalk =>
        \A i \in DOMAIN tree.nodes :
            tree.nodes[i].is_dir =>
                IF result = "Some" THEN tree.nodes[i].is_complete
                ELSE tree.nodes[i].is_complete <=> ~WalkInside(i)

\* the same for the directory nodes that have children
C25_DirectoriesWithChildren ==
    RefreshWalk =>
        \A i \in DOMAIN tree.nodes :
            (tree.nodes[i].is_dir /\ Outgoing(tree, i) # {}) =>
                IF result = "Some" THEN tree.nodes[i].is_complete
                ELSE tree.nodes[i].is_complete <=> ~WalkInside(i)

\* C26: in the tree a completed walk of the refresh builder returns, the
\* entry_count of every directory node is the number of nodes below it; for
\* the synthetic root that is the number of all other nodes.
C26_EntryCountIsDescendants ==
    RefreshReturnedTree =>
        \A i \in DOMAIN tree.nodes :
            tree.nodes[i].is_dir =>
                CountOf(tree.nodes[i].entry_count) = Cardinality(Below(tree, i))

\* the same for the directory nodes below the synthetic root
C26_BelowTheRoot ==
    RefreshReturnedTree =>
        \A i \in DOMAIN tree.nodes :
            (tree.nodes[i].is_dir /\ i # root_index) =>
                CountOf(tree.nodes[i].entry_count) = Cardinality(Below(tree, i))

\* the synthetic root counts the items of the streams, not the nodes
C26_RootCountsItems ==
    RefreshReturnedTree =>
        CountOf(tree.nodes[root_index].entry_count) = Delivered

\* =================================================================
\* The depth stack of the tree builder
\* =================================================================
\* the depth of the last entry among the first q items, 0 if there is none
RECURSIVE DepthAfter(_, _)
DepthAfter(flat, q) ==
    IF q = 0 THEN 0
    ELSE IF flat[q].e.ok THEN flat[q].e.depth
    ELSE DepthAfter(flat, q - 1)

\* the number of nodes after the first q items: the synthetic root, one node
\* per entry and one per enumeration error met at depth 0
RECURSIVE NodesAfter(_, _)
NodesAfter(flat, q) ==
    IF q = 0 THEN 1
    ELSE NodesAfter(flat, q - 1) +
         (IF flat[q].e.ok \/ DepthAfter(flat, q - 1) = 0 THEN 1 ELSE 0)

\* the positions before q of the entries of the same root one level up
OneLevelUp(flat, q) ==
    {j \in 1 .. q - 1 : /\ flat[j].e.ok
                        /\ flat[j].root = flat[q].root
                        /\ flat[j].e.depth = flat[q].e.depth - 1}

\* the node of the nearest preceding entry one level above the entry at
\* position q, the synthetic root for an entry at depth 0
NearestAbove(flat, q) ==
    IF flat[q].e.depth = 0 \/ OneLevelUp(flat, q) = {} THEN root_index
    ELSE NodesAfter(flat, CHOOSE j \in OneLevelUp(flat, q) :
                              \A k \in OneLevelUp(flat, q) : k <= j)

\* an expect() of the unwinding code failed
StackPanic == panic_msg' \in {MsgSetSize, MsgParent, MsgPop}

\* C31: for streams honouring the depth contract, after every entry that
\* from_walker has processed the stack holds as many accumulators as the
\* entry's depth and the current parent is the node of the nearest preceding
\* entry one level up (the synthetic root for depth 0); no pop, parent
\* lookup or size assignment fails, in the loop, at the switch to the next
\* root or in the final unwind.
C31_DepthStack ==
    [][(consumer = "from_walker" /\ DepthContract(roots')) =>
         /\ ~StackPanic
         /\ (PullsItem /\ Pulled.ok) =>
               /\ Len(sizes_per_depth_level') = Pulled.depth
               /\ parent_node_idx' =
                     NearestAbove(Flat(roots', Len(roots')),
                                  Len(Flat(roots', Len(roots'))))]_vars

\* the first root ended two levels down; the first entry of the second
\* root has emptied the stack and hangs below the synthetic root
C31_Witness ==
    /\ consumer = "from_walker" /\ result = "running"
    /\ Len(roots) = 2 /\ Len(roots[1].entries) = 3 /\ Len(roots[2].entries) = 1
    /\ [i \in 1 .. 3 |-> roots[1].entries[i].depth] = <<0, 1, 2>>
    /\ \A i \in 1 .. 3 : roots[1].entries[i].ok
    /\ roots[2].entries[1].ok /\ roots[2].entries[1].depth = 0
    /\ sizes_per_depth_level = <<>>
    /\ parent_node_idx = root_index
    /\ Incoming(tree, 5) = {root_index}

\* =================================================================
\* The two consumers agree
\* =================================================================
\* the bytes the delivered streams hold for the grand total: every item's
\* contribution, whatever its depth
RECURSIVE StreamTotalUpTo(_, _)
StreamTotalUpTo(rs, k) ==
    IF k = 0 THEN 0 ELSE ExpectedBytes(rs, k) + StreamTotalUpTo(rs, k - 1)

StreamTotal == StreamTotalUpTo(roots, Len(roots))

\* an invocation that ran to its end, and the total and the count it reports
RanToTheEnd ==
    \/ consumer = "aggregate" /\ result = "Ok"
    \/ consumer = "from_walker" /\ result = "Some"

ReportedTotal == IF consumer = "aggregate" THEN <<res.total>> ELSE total_bytes

\* both consumers report what the streams hold: given the same roots, streams
\* and options they report the same
SameAsTheOther ==
    /\ ReportedTotal = <<StreamTotal>>
    /\ entries_traversed = Len(Delivery)

\* C32 as stated: for the same roots, the same streams honouring the depth
\* contract, the same options and no cancellation, total_bytes of
\* from_walker equals total of aggregate, and both report the same
\* entries_traversed.
C32_ConsumersAgree_AsStated ==
    (RanToTheEnd /\ DepthContract(roots)) => SameAsTheOther

\* C32 amended: the same, for streams in which only directories (entries
\* with no size of their own) have children.
C32_ConsumersAgree ==
    (RanToTheEnd /\ DepthContract(roots) /\ OnlyDirectoriesNest(roots))
        => SameAsTheOther

\* a directory holding a file and a hard link, walked to the end by either
\* consumer: 6 bytes, three entries
C32_Witness ==
    /\ RanToTheEnd
    /\ Len(roots) = 1 /\ roots[1].device_id = <<0>>
    /\ Len(roots[1].entries) = 3
    /\ roots[1].entries[1].is_dir /\ roots[1].entries[1].depth = 0
    /\ roots[1].entries[2].depth = 1 /\ roots[1].entries[2].nlink = 1
    /\ HasOwnSize(roots[1].entries[2])
    /\ roots[1].entries[3].depth = 1 /\ roots[1].entries[3].nlink > 1
    /\ ReportedTotal = <<6>>
    /\ entries_traversed = 3

\* =================================================================
\* Every inode counted once
\* =================================================================
\* an observation whose size can be counted: a sized entry that passes the
\* cross-device gate and whose size fetch succeeds
GoodObservation(rs, k, e) ==
    /\ HasOwnSize(e)
    /\ walk_options.cross_filesystems \/ OnRootDevice(rs, k, e)
    /\ walk_options.apparent_size \/ e.disk_ok

\* the item at position p is the first good observation of its inode
FirstGoodObservation(rs, flat, p) ==
    /\ GoodObservation(rs, flat[p].root, flat[p].e)
    /\ \A q \in 1 .. p - 1 :
          ~(/\ GoodObservation(rs, flat[q].root, flat[q].e)
            /\ flat[q].e.nlink > 1
            /\ flat[q].e.dev = flat[p].e.dev
            /\ flat[q].e.ino = flat[p].e.ino)

\* the grand total in which every inode with a good observation is counted
\* exactly once, and every entry that is no hard link as the gates say
RECURSIVE InodeOnceUpTo(_, _)
InodeOnceUpTo(rs, p) ==
    IF p = 0 THEN 0
    ELSE LET flat == Flat(rs, Len(rs))
             e == flat[p].e
         IN InodeOnceUpTo(rs, p - 1) +
            (IF e.nlink > 1
             THEN IF FirstGoodObservation(rs, flat, p) THEN SelectedSize(e) ELSE 0
             ELSE Contributes(rs, SubSeq(flat, 1, p - 1), flat[p].root, e))

InodeOnceTotal == InodeOnceUpTo(roots, Len(Delivery))

\* C33: with count_hard_links false, every inode with nlink > 1 that has at
\* least one observation passing the cross-device gate with a successful
\* size fetch is counted exactly once in the grand total, also when an
\* earlier observation of the inode was excluded by the cross-device gate or
\* failed its size fetch.
C33_EveryInodeOnce ==
    (RanToTheEnd /\ ~walk_options.count_hard_links)
        => ReportedTotal = <<InodeOnceTotal>>

\* =================================================================
\* The sentinel of the smallest file
\* =================================================================
\* C34: aggregate never returns the initial maximum sentinel: for every
\* input the returned statistics satisfy smallest_file_in_bytes <=
\* largest_file_in_bytes, also when every traversed item is an enumeration
\* error.
C34_NoSentinelReturned ==
    (consumer = "aggregate" /\ result = "Ok") =>
        /\ stats.smallest_file_in_bytes # u128_max_value
        /\ stats.smallest_file_in_bytes <= stats.largest_file_in_bytes

\* what holds: the sentinel is replaced as soon as one entry was enumerated
\* without an error, and when nothing was traversed
C34_UnlessOnlyErrors ==
    (/\ consumer = "aggregate" /\ result = "Ok"
     /\ Delivery = <<>> \/ \E p \in DOMAIN Delivery : Delivery[p].e.ok) =>
        /\ stats.smallest_file_in_bytes # u128_max_value
        /\ stats.smallest_file_in_bytes <= stats.largest_file_in_bytes

\* =================================================================
\* Sizes of the directories the walk has left
\* =================================================================
\* the nodes of the directories among the delivered entries
DirectoryNodes(rs) ==
    LET flat == Flat(rs, Len(rs))
    IN {NodesAfter(flat, q) : q \in {p \in DOMAIN flat : flat[p].e.ok /\ flat[p].e.is_dir}}

\* the walk is still inside the subtree of node i: i is the current parent
\* or above it, or i is the entry yielded last, which it may still enter
StillOpen(g, prev, parent, i) ==
    i = prev \/ i = parent \/ AncestorOf(g, i, parent)

\* the walk has left node i of the tree it has built so far
Departed(i) ==
    /\ i \in DOMAIN tree.nodes
    /\ result = "Some" \/ ~StillOpen(tree, previous_node_idx, parent_node_idx, i)

DepartedNext(i) ==
    /\ i \in DOMAIN tree'.nodes
    /\ result' = "Some" \/ ~StillOpen(tree', previous_node_idx', parent_node_idx', i)

\* after the step, every directory the walk has left is as large as its
\* children together, and a directory it had left before is as it was
DepartedSizesFinal ==
    \A i \in DirectoryNodes(roots') :
        /\ DepartedNext(i) =>
              tree'.nodes[i].size = SumSizes(tree', Outgoing(tree', i))
        /\ Departed(i) => tree'.nodes[i].size = tree.nodes[i].size

\* C35 as stated: in the tree builder, once the walk has left a directory's
\* subtree the directory's size is the sum of its children's sizes and no
\* later entry, later root or the final unwind modifies it; so at every
\* progress callback the directories already left carry their final sizes.
C35_DepartedSizesFinal_AsStated ==
    [][(consumer = "from_walker" /\ result' \in {"running", "Some"}
        /\ DepthContract(roots')) => DepartedSizesFinal]_vars

\* C35 amended: the same, for streams in which only directories (entries
\* with no size of their own) have children.
C35_DepartedSizesFinal ==
    [][(consumer = "from_walker" /\ result' \in {"running", "Some"}
        /\ DepthContract(roots') /\ OnlyDirectoriesNest(roots'))
            => DepartedSizesFinal]_vars

\* the walk has left a directory holding a file and an empty directory; the
\* first entry of the next root came after it and the walk still runs
C35_Witness ==
    /\ consumer = "from_walker" /\ result = "running"
    /\ Len(roots) = 2 /\ Len(roots[1].entries) = 3 /\ Len(roots[2].entries) = 1
    /\ [i \in 1 .. 3 |-> roots[1].entries[i].depth] = <<0, 1, 1>>
    /\ roots[1].entries[1].is_dir /\ HasOwnSize(roots[1].entries[2])
    /\ roots[1].entries[3].is_dir
    /\ roots[2].entries[1].ok /\ roots[2].entries[1].depth = 0
    /\ Departed(2) /\ Departed(4)
    /\ tree.nodes[2].size = 2 /\ tree.nodes[4].size = 0
    /\ Outgoing(tree, 2) = {3, 4}

\* =================================================================
\* Throttle: ticks while f runs, and the end of the timer thread
\* =================================================================
\* a call of throttled / can_update, and one that returned true
ThrottleCall == calls' > calls
ReturnsTrue == ThrottleCall /\ caller_pc' = "run_f"

\* C36: the flag is cleared by the call, before f runs; a tick sets it
\* whenever it fires, also while f is executing; and a set flag is cleared
\* by nothing but a call that returns true, so the first call after a tick
\* that fired during f runs f again.
C36_TickDuringFNotLost ==
    [][/\ ReturnsTrue => ~trigger'
       /\ ticks' > ticks => trigger'
       /\ (trigger /\ ~trigger') => ReturnsTrue
       /\ (ThrottleCall /\ trigger) => ReturnsTrue]_vars

\* f runs for the second time while the flag is set again: the third tick
\* fired after the second call had cleared the flag
C36_Witness ==
    /\ caller_pc = "run_f" /\ trigger
    /\ calls = 2 /\ f_runs = 1 /\ ticks = 3

RefreshNodeOf(q) == tree.nodes[NodesAfter(Delivery, q)]

\* C38: in the refresh tree a node is flagged is_dir if and only if its
\* entry is a directory; a non-directory entry that the hard-link or the
\* cross-device gate excludes is not flagged as a directory.
C38_IsDirIffDirectory ==
    (RefreshWalk /\ result \in {"running", "Some"}) =>
        \A q \in DOMAIN Delivery :
            (Delivery[q].e.ok /\ Delivery[q].e.md = "Ok") =>
                RefreshNodeOf(q).is_dir = Delivery[q].e.is_dir

\* what holds: directories are flagged, and so is every entry with
\* metadata whose size is not counted
C38_IsDirIffNotCounted ==
    (RefreshWalk /\ result \in {"running", "Some"}) =>
        \A q \in DOMAIN Delivery :
            (Delivery[q].e.ok /\ Delivery[q].e.md = "Ok") =>
                RefreshNodeOf(q).is_dir =
                    (Delivery[q].e.is_dir \/ ~RefreshNodeOf(q).is_complete)

\* C39: for every stream honouring the pre-order depth contract the refresh
\* builder finishes without aborting, also when a directory that has
\* children was yielded without metadata or with a metadata error; the
\* assertion on is_dir made when a directory is finalized never fails.
C39_NeverAborts ==
    (RefreshWalk /\ DepthContract(roots)) => result # "panic"

\* what holds: the expect() calls never fail on such streams
C39_OnlyTheAssertion ==
    (RefreshWalk /\ DepthContract(roots) /\ result = "panic")
        => panic_msg = MsgIsDir

====
